---- MODULE Spec2Model ----
(***************************************************************************)
(* Verification model of zainabbasdev/mlops-stock-prediction.              *)
(*                                                                         *)
(* Part 1: src/src/data/quality_check.py, class DataQualityChecker.        *)
(* A checker object (null_threshold, required_columns, checks_passed,      *)
(* issues) and a caller that holds a frame, calls the checker's methods    *)
(* and keeps the tuple run_all_checks handed back.                         *)
(***************************************************************************)
EXTENDS Integers, Sequences, FiniteSets, TLC

(***************************************************************************)
(* Bounds of the model.                                                    *)
(***************************************************************************)
\* largest number of rows of a frame
MaxRows == 2
\* a frame differs from a clean frame by at most this many defects
MaxDefects == 2
\* direct check_* calls the caller makes in a row, between two other steps
\* (run_all_checks, generate_report, a repair of its frame)
MaxDirect == 1

(***************************************************************************)
(* Program constants.                                                      *)
(***************************************************************************)
\* check_sufficient_data / run_all_checks: min_rows: int = 100
DefaultMinRows == 100
\* __init__: required_columns or ['open', 'high', 'low', 'close', 'volume']
DefaultRequiredColumns == {"open", "high", "low", "close", "volume"}
\* check_data_types: numeric_columns
numeric_columns == <<"open", "high", "low", "close", "volume">>
\* check_value_ranges: price_columns
price_columns == <<"open", "high", "low", "close">>
\* the keys the six checks write into checks_passed
CheckNames == {"schema", "null_values", "data_types", "value_ranges",
               "temporal", "sufficient_data"}

(***************************************************************************)
(* Frames (pandas.DataFrame as the checker reads it).                      *)
(*   index_type : "DatetimeIndex" or "RangeIndex"                          *)
(*   index      : the index values, one per row                            *)
(*   columns    : the column names                                         *)
(*   dtype      : per column "float64" or "object"                         *)
(*   data       : per column the cells, one per row                        *)
(* A cell is a number, NaN, or a string (only in an object column).        *)
(***************************************************************************)
NaN == [t |-> "nan", v |-> 0]
Str == [t |-> "str", v |-> 0]
Num(x) == [t |-> "num", v |-> x]

isnull(c) == c.t = "nan"

len(df) == Len(df.index)

\* a clean frame of n rows: hourly timestamps 1..n, high >= low, nothing
\* negative, nothing missing
CleanRow == [open |-> Num(1), high |-> Num(2), low |-> Num(1),
             close |-> Num(1), volume |-> Num(1), dividends |-> Num(0)]

CleanFrame(n) ==
    [index_type |-> "DatetimeIndex",
     index      |-> [i \in 1..n |-> i],
     columns    |-> DefaultRequiredColumns,
     dtype      |-> [c \in DefaultRequiredColumns |-> "float64"],
     data       |-> [c \in DefaultRequiredColumns |-> [i \in 1..n |-> CleanRow[c]]]]

\* the defects a frame of n rows can get: a cell overwritten (NaN, a negative
\* number, a low above the high), a column dropped or added, a column read as
\* text, a duplicate or swapped timestamp, a non-timestamp index
CellDefects(n) ==
    {[k |-> "cell", col |-> c, row |-> i, val |-> NaN] :
        c \in {"close", "volume"}, i \in 1..n}
    \cup {[k |-> "cell", col |-> c, row |-> i, val |-> Num(0 - 1)] :
        c \in {"open", "close", "volume"}, i \in 1..n}
    \cup {[k |-> "cell", col |-> "low", row |-> i, val |-> Num(3)] : i \in 1..n}

ShapeDefects(n) ==
    {[k |-> "drop", col |-> c, row |-> 0, val |-> NaN] : c \in {"high", "volume"}}
    \cup {[k |-> "add", col |-> "dividends", row |-> 0, val |-> NaN]}
    \cup {[k |-> "text", col |-> c, row |-> 0, val |-> Str] : c \in {"close", "volume"}}
    \cup {[k |-> "range_index", col |-> "", row |-> 0, val |-> NaN]}
    \cup {[k |-> "dup_time", col |-> "", row |-> i, val |-> NaN] : i \in 2..n}
    \cup {[k |-> "swap_time", col |-> "", row |-> i, val |-> NaN] : i \in 2..n}

Defects(n) == CellDefects(n) \cup ShapeDefects(n)

\* the frame f with defect d applied
Apply(f, d) ==
    LET n == len(f) IN
    CASE d.k = "cell" ->
           IF d.col \in f.columns /\ f.dtype[d.col] = "float64"
           THEN [f EXCEPT !.data[d.col][d.row] = d.val]
           ELSE f
      [] d.k = "drop" ->
           LET cs == f.columns \ {d.col} IN
           [f EXCEPT !.columns = cs,
                     !.dtype = [c \in cs |-> f.dtype[c]],
                     !.data = [c \in cs |-> f.data[c]]]
      [] d.k = "add" ->
           LET cs == f.columns \cup {d.col} IN
           [f EXCEPT !.columns = cs,
                     !.dtype = [c \in cs |-> IF c = d.col THEN "float64" ELSE f.dtype[c]],
                     !.data = [c \in cs |-> IF c = d.col
                                            THEN [i \in 1..n |-> d.val]
                                            ELSE f.data[c]]]
      [] d.k = "text" ->
           IF d.col \in f.columns
           THEN [f EXCEPT !.dtype[d.col] = "object",
                          !.data[d.col] = [i \in 1..n |-> Str]]
           ELSE f
      [] d.k = "range_index" -> [f EXCEPT !.index_type = "RangeIndex"]
      [] d.k = "dup_time" -> [f EXCEPT !.index[d.row] = f.index[d.row - 1]]
      [] d.k = "swap_time" ->
           [f EXCEPT !.index[d.row] = f.index[d.row - 1],
                     !.index[d.row - 1] = f.index[d.row]]

RECURSIVE FramesWithin(_, _)
\* the frames of n rows at most k defects away from the clean frame
FramesWithin(n, k) ==
    IF k = 0 THEN {CleanFrame(n)}
    ELSE LET P == FramesWithin(n, k - 1)
         IN  P \cup {Apply(f, d) : f \in P, d \in Defects(n)}

Frames == UNION {FramesWithin(n, MaxDefects) : n \in 0..MaxRows}


(***************************************************************************)
(* State.                                                                  *)
(***************************************************************************)
VARIABLES
    null_threshold,    \* self.null_threshold, the fraction num/den
    required_columns,  \* self.required_columns
    checks_passed,     \* self.checks_passed: check name -> bool
    issues,            \* self.issues: the issue strings, in order
    df,                \* the frame the caller holds
    last,              \* the caller's last call and how it ended
    report,            \* the tuple of a run_all_checks call that the caller
                       \* holds, as it was when it was returned; between: the
                       \* checker has since been called on another frame
    aliased,           \* the dict and the list of that tuple are still the
                       \* objects self.checks_passed and self.issues name
    direct,            \* direct check_* calls made in a row
    scenario,          \* where the caller is in "check, repair, check again"
    target_column,     \* StockDataTransformer: self.target_column
    feature_names,     \* StockDataTransformer: self.feature_names, in order
    raw_df,            \* the raw frame the transformer's caller holds
    tlast,             \* the caller's last call on the transformer, with
                       \* the frame it returned
    tprev,             \* an earlier transform the caller kept: its input,
                       \* its horizon, its output and the feature_names then
    stages,            \* stage calls made since the last transform
    dag,               \* one run of the DAG stock_volatility_pipeline: the
                       \* task instances, XCom, the files written, the log
    service,           \* the serving process: model_service, the Prometheus
                       \* counters and the last response
    split              \* the trainer's last split_data call

\* the checker and its caller
qvars == <<null_threshold, required_columns, checks_passed, issues, df, last,
           report, aliased, direct, scenario>>

\* the transformer and its caller
tvars == <<target_column, feature_names, raw_df, tlast, tprev, stages>>

\* the orchestrator, the serving process and the trainer
ovars == <<dag, service, split>>

vars == <<null_threshold, required_columns, checks_passed, issues, df, last,
          report, aliased, direct, scenario,
          target_column, feature_names, raw_df, tlast, tprev, stages,
          dag, service, split>>

\* a frame without rows or columns, columns in order
NoFrame == [index |-> <<>>, columns |-> <<>>, data |-> <<>>]

\* before: what the caller had done last when it made the call ("__init__",
\* "stage" or "transform"); input: the frame it passed; df: the frame returned
NoCall == [op |-> "__init__", before |-> "__init__", horizon |-> 0, raised |-> FALSE,
           input |-> NoFrame, df |-> NoFrame]

NoTransform == [made |-> FALSE, input |-> NoFrame, horizon |-> 0, df |-> NoFrame,
                feature_names |-> <<>>, stages |-> 0]

\* no transformer in use: StockDataTransformer() and nothing called on it
TransformerIdle ==
    /\ target_column = "close"
    /\ feature_names = <<>>
    /\ raw_df = NoFrame
    /\ tlast = NoCall
    /\ tprev = NoTransform
    /\ stages = 0

\* no DAG run triggered, no serving process started, split_data not called
NoRun == [triggered |-> FALSE]
NoService == [started |-> FALSE]
NoSplit == [made |-> FALSE]

OthersIdle ==
    /\ dag = NoRun
    /\ service = NoService
    /\ split = NoSplit

(***************************************************************************)
(* Issue strings.  An issue is the f-string's template with the values it  *)
(* interpolates: col (a column name), n (a count or a percentage), cols (a *)
(* set of column names).                                                   *)
(***************************************************************************)
Issue(msg, col, n, m, cols) == [msg |-> msg, col |-> col, n |-> n, m |-> m, cols |-> cols]

\* f"{x:.2f}" of the percentage 100*a/b: hundredths of a percent, rounded to
\* the nearest (b > 0)
Fmt2(a, b) == (2 * 10000 * a + b) \div (2 * b)

\* dict with d[k] = v set
SetItem(d, k, v) == [x \in (DOMAIN d) \cup {k} |-> IF x = k THEN v ELSE d[x]]

EmptyDict == [x \in {} |-> FALSE]

\* what a method leaves behind: the two fields of self, the value returned
\* and whether the call raised instead of returning
Outcome(cp, is, ret, raised) ==
    [checks_passed |-> cp, issues |-> is, ret |-> ret, raised |-> raised]

(***************************************************************************)
(* DataQualityChecker.check_schema                                         *)
(***************************************************************************)
\* mutant: fails only when every required column is missing
check_schema_all_missing(s, f) ==
    LET missing_columns == required_columns \ f.columns IN
    IF missing_columns = required_columns
    THEN Outcome(SetItem(s.checks_passed, "schema", FALSE),
                 Append(s.issues, Issue("Missing required columns", "", 0, 0, missing_columns)),
                 FALSE, FALSE)
    ELSE Outcome(SetItem(s.checks_passed, "schema", TRUE), s.issues, TRUE, FALSE)

check_schema(s, f) ==
    LET missing_columns == required_columns \ f.columns IN
    IF missing_columns # {}
    THEN Outcome(SetItem(s.checks_passed, "schema", FALSE),
                 Append(s.issues, Issue("Missing required columns", "", 0, 0, missing_columns)),
                 FALSE, FALSE)
    ELSE Outcome(SetItem(s.checks_passed, "schema", TRUE), s.issues, TRUE, FALSE)

(***************************************************************************)
(* DataQualityChecker.check_null_values                                    *)
(***************************************************************************)
\* df.shape[0] * df.shape[1]
total_cells(f) == len(f) * Cardinality(f.columns)

RECURSIVE SumOver(_, _)
\* sum of F[c] over the columns cs
SumOver(F, cs) ==
    IF cs = {} THEN 0
    ELSE LET c == CHOOSE x \in cs : TRUE IN F[c] + SumOver(F, cs \ {c})

\* df.isnull().sum().sum()
null_count(f) ==
    SumOver([c \in f.columns |-> Cardinality({i \in 1..len(f) : isnull(f.data[c][i])})],
            f.columns)

\* mutant: >= in place of >
exceeds_threshold_ge(f) ==
    /\ total_cells(f) > 0
    /\ null_count(f) * null_threshold.den >= null_threshold.num * total_cells(f)

\* null_percentage > self.null_threshold * 100.  With no cell at all the
\* quotient 0/0 of the numpy integer is nan, and nan > x is false.
exceeds_threshold(f) ==
    /\ total_cells(f) > 0
    /\ null_count(f) * null_threshold.den > null_threshold.num * total_cells(f)

check_null_values(s, f) ==
    IF exceeds_threshold(f)
    THEN Outcome(SetItem(s.checks_passed, "null_values", FALSE),
                 Append(s.issues, Issue("Null values exceed threshold", "",
                                        Fmt2(null_count(f), total_cells(f)),
                                        0, {})),
                 FALSE, FALSE)
    ELSE Outcome(SetItem(s.checks_passed, "null_values", TRUE), s.issues, TRUE, FALSE)

(***************************************************************************)
(* DataQualityChecker.check_data_types                                     *)
(***************************************************************************)
\* pd.api.types.is_numeric_dtype(df[col])
is_numeric_dtype(f, col) == f.dtype[col] = "float64"

\* the positions of numeric_columns whose column is present and not numeric
NonNumeric(f) ==
    {j \in 1..Len(numeric_columns) :
        /\ numeric_columns[j] \in f.columns
        /\ ~is_numeric_dtype(f, numeric_columns[j])}

Min(S) == CHOOSE x \in S : \A y \in S : x <= y

check_data_types(s, f) ==
    IF NonNumeric(f) # {}
    THEN \* the loop returns at the first such column
         Outcome(SetItem(s.checks_passed, "data_types", FALSE),
                 Append(s.issues, Issue("Column is not numeric type",
                                        numeric_columns[Min(NonNumeric(f))], 0, 0, {})),
                 FALSE, FALSE)
    ELSE Outcome(SetItem(s.checks_passed, "data_types", TRUE), s.issues, TRUE, FALSE)


(***************************************************************************)
(* DataQualityChecker.check_value_ranges                                   *)
(***************************************************************************)
\* (df[col] < 0) raises TypeError when the column holds a string
compare_raises(f, col) == \E i \in 1..len(f) : f.data[col][i].t = "str"

\* (df[col] < 0).sum(): NaN < 0 is false
negative_count(f, col) ==
    Cardinality({i \in 1..len(f) : f.data[col][i].t = "num" /\ f.data[col][i].v < 0})

\* (df['high'] < df['low']) raises TypeError when a row pairs a string with a
\* number; two strings compare as text
ranges_raise(f) ==
    \E i \in 1..len(f) : (f.data["high"][i].t = "str") # (f.data["low"][i].t = "str")

\* mutant: <= in place of <
invalid_ranges_le(f) ==
    Cardinality({i \in 1..len(f) : /\ f.data["high"][i].t = "num"
                                   /\ f.data["low"][i].t = "num"
                                   /\ f.data["high"][i].v <= f.data["low"][i].v})

\* (df['high'] < df['low']).sum(): a comparison with NaN is false
invalid_ranges(f) ==
    Cardinality({i \in 1..len(f) : /\ f.data["high"][i].t = "num"
                                   /\ f.data["low"][i].t = "num"
                                   /\ f.data["high"][i].v < f.data["low"][i].v})

RECURSIVE price_loop(_, _, _)
\* the loop over price_columns from position j on; acc is the issue list,
\* issues_found and whether a comparison has raised
price_loop(f, j, acc) ==
    IF j > Len(price_columns) \/ acc.raised THEN acc
    ELSE LET col == price_columns[j] IN
         IF col \notin f.columns THEN price_loop(f, j + 1, acc)
         ELSE IF compare_raises(f, col) THEN [acc EXCEPT !.raised = TRUE]
         ELSE IF negative_count(f, col) > 0
              THEN price_loop(f, j + 1,
                     [acc EXCEPT !.issues = Append(@, Issue("Found negative values in column",
                                                            col, negative_count(f, col), 0, {})),
                                 !.issues_found = TRUE])
              ELSE price_loop(f, j + 1, acc)

\* the negative-volume block
volume_step(f, acc) ==
    IF acc.raised \/ "volume" \notin f.columns THEN acc
    ELSE IF compare_raises(f, "volume") THEN [acc EXCEPT !.raised = TRUE]
    ELSE IF negative_count(f, "volume") > 0
         THEN [acc EXCEPT !.issues = Append(@, Issue("Found negative volume values", "",
                                                     negative_count(f, "volume"), 0, {})),
                          !.issues_found = TRUE]
         ELSE acc

\* mutant: the high >= low block left out
high_low_step_skipped(f, acc) == acc

\* the high >= low block
high_low_step(f, acc) ==
    IF acc.raised \/ "high" \notin f.columns \/ "low" \notin f.columns THEN acc
    ELSE IF ranges_raise(f) THEN [acc EXCEPT !.raised = TRUE]
    ELSE IF invalid_ranges(f) > 0
         THEN [acc EXCEPT !.issues = Append(@, Issue("Found rows where high < low", "",
                                                     invalid_ranges(f), 0, {})),
                          !.issues_found = TRUE]
         ELSE acc

check_value_ranges(s, f) ==
    LET a0 == [issues |-> s.issues, issues_found |-> FALSE, raised |-> FALSE]
        a3 == high_low_step(f, volume_step(f, price_loop(f, 1, a0)))
    IN  IF a3.raised
        THEN \* the TypeError leaves checks_passed as it was
             Outcome(s.checks_passed, a3.issues, FALSE, TRUE)
        ELSE Outcome(SetItem(s.checks_passed, "value_ranges", ~a3.issues_found),
                     a3.issues, ~a3.issues_found, FALSE)

(***************************************************************************)
(* DataQualityChecker.check_temporal_consistency                           *)
(***************************************************************************)
\* df.index.duplicated().sum(): the entries that repeat an earlier one
duplicated_count(f) ==
    len(f) - Cardinality({f.index[i] : i \in 1..len(f)})

\* mutant: the sort check always satisfied
is_monotonic_always(f) == TRUE

\* df.index.is_monotonic_increasing: never decreasing
is_monotonic_increasing(f) ==
    \A i \in 1..len(f) : i > 1 => f.index[i - 1] <= f.index[i]

check_temporal_consistency(s, f) ==
    IF f.index_type # "DatetimeIndex"
    THEN Outcome(SetItem(s.checks_passed, "temporal", FALSE),
                 Append(s.issues, Issue("Index is not a DatetimeIndex", "", 0, 0, {})),
                 FALSE, FALSE)
    ELSE IF duplicated_count(f) > 0
    THEN Outcome(SetItem(s.checks_passed, "temporal", FALSE),
                 Append(s.issues, Issue("Found duplicate timestamps", "",
                                        duplicated_count(f), 0, {})),
                 FALSE, FALSE)
    ELSE IF ~is_monotonic_increasing(f)
    THEN Outcome(SetItem(s.checks_passed, "temporal", FALSE),
                 Append(s.issues, Issue("Data is not sorted chronologically", "", 0, 0, {})),
                 FALSE, FALSE)
    ELSE Outcome(SetItem(s.checks_passed, "temporal", TRUE), s.issues, TRUE, FALSE)

(***************************************************************************)
(* DataQualityChecker.check_sufficient_data                                *)
(***************************************************************************)
check_sufficient_data(s, f, min_rows) ==
    IF len(f) < min_rows
    THEN Outcome(SetItem(s.checks_passed, "sufficient_data", FALSE),
                 Append(s.issues, Issue("Insufficient data", "", len(f), min_rows, {})),
                 FALSE, FALSE)
    ELSE Outcome(SetItem(s.checks_passed, "sufficient_data", TRUE), s.issues, TRUE, FALSE)

(***************************************************************************)
(* DataQualityChecker.run_all_checks                                       *)
(***************************************************************************)
\* mutant: any() in place of all()
any_value(d) == \E k \in DOMAIN d : d[k]

\* all(d.values())
all_values(d) == \A k \in DOMAIN d : d[k]

\* mutant: the issue list is not emptied
reset_keeps_issues(s) == [checks_passed |-> EmptyDict, issues |-> s.issues]

\* self.checks_passed = {}; self.issues = []
reset(s) == [checks_passed |-> EmptyDict, issues |-> <<>>]

\* the six calls in order; only check_value_ranges can raise, and then the
\* two checks after it do not run
run_all_checks(s, f, min_rows) ==
    LET r1 == check_schema(reset(s), f)
        r2 == check_null_values(r1, f)
        r3 == check_data_types(r2, f)
        r4 == check_value_ranges(r3, f)
        r5 == check_temporal_consistency(r4, f)
        r6 == check_sufficient_data(r5, f, min_rows)
    IN  IF r4.raised THEN r4
        ELSE Outcome(r6.checks_passed, r6.issues, all_values(r6.checks_passed), FALSE)

(***************************************************************************)
(* DataQualityChecker.generate_report                                      *)
(***************************************************************************)
\* the text, by its parts: the shape, the line of each check in the dict,
\* the numbered issues and the overall status (the "Generated:" line, the
\* wall clock, is left out)
report_text(f, r) ==
    [shape   |-> <<len(f), Cardinality(f.columns)>>,
     lines   |-> [k \in DOMAIN r.checks_passed |->
                     IF r.checks_passed[k] THEN "PASSED" ELSE "FAILED"],
     issues  |-> [i \in 1..Len(r.issues) |-> <<i, r.issues[i]>>],
     overall |-> IF r.ret THEN "PASSED" ELSE "FAILED"]

\* mutant: the report made with the smallest min_rows the caller uses
generate_report_small_min_rows(s, f) ==
    LET r == run_all_checks(s, f, 2)
    IN  IF r.raised THEN r
        ELSE Outcome(r.checks_passed, r.issues, report_text(f, r), FALSE)

\* all_passed, checks, issues = self.run_all_checks(df), min_rows left to
\* its default
generate_report(s, f) ==
    LET r == run_all_checks(s, f, DefaultMinRows)
    IN  IF r.raised THEN r
        ELSE Outcome(r.checks_passed, r.issues, report_text(f, r), FALSE)


(***************************************************************************)
(* The caller.                                                             *)
(***************************************************************************)
\* __init__: null_threshold: float = 0.01
DefaultThreshold == [num |-> 1, den |-> 100]

\* null_threshold: the default and 0.1
Thresholds == {DefaultThreshold, [num |-> 1, den |-> 10]}

\* required_columns: the default and a custom list
RequiredChoices == {DefaultRequiredColumns, {"close", "dividends"}}

\* min_rows: a small one and the default
MinRowsChoices == {2, DefaultMinRows}

\* a clean frame with just the rows the default min_rows asks for
LongFrame == CleanFrame(DefaultMinRows)

\* the frames a session starts with: a clean one, a clean one of 100 rows,
\* one with high < low in its first row, one with a missing close and one
\* whose close column is text
SessionFrames ==
    {CleanFrame(MaxRows), LongFrame} \cup
    {Apply(CleanFrame(MaxRows), d) :
        d \in {[k |-> "cell", col |-> "low", row |-> 1, val |-> Num(3)],
               [k |-> "cell", col |-> "close", row |-> 1, val |-> NaN],
               [k |-> "text", col |-> "close", row |-> 0, val |-> Str]}}

\* a frame the caller passes besides the one it holds: no volume column, and
\* a row with high < low
OtherFrame ==
    Apply(Apply(CleanFrame(1), [k |-> "drop", col |-> "volume", row |-> 0, val |-> NaN]),
          [k |-> "cell", col |-> "low", row |-> 1, val |-> Num(3)])

Args == {df, OtherFrame}

self == [checks_passed |-> checks_passed, issues |-> issues]

NoResult == [raised |-> FALSE, all_passed |-> FALSE, checks |-> EmptyDict, issues |-> <<>>]

\* what the caller of run_all_checks gets: the tuple, or the exception
Result(r) ==
    IF r.raised THEN [NoResult EXCEPT !.raised = TRUE]
    ELSE [raised |-> FALSE, all_passed |-> r.ret,
          checks |-> r.checks_passed, issues |-> r.issues]

\* DataQualityChecker(null_threshold, required_columns), and the caller's frame
InitWith(frames, thresholds, required) ==
    /\ null_threshold \in thresholds
    /\ required_columns \in required
    /\ checks_passed = EmptyDict
    /\ issues = <<>>
    /\ df \in frames
    /\ last = [op |-> "__init__", frame |-> CleanFrame(0), min_rows |-> 0,
               raised |-> FALSE, ret |-> TRUE]
    /\ report = [made |-> FALSE, frame |-> CleanFrame(0), min_rows |-> 0,
                 result |-> NoResult, between |-> FALSE]
    /\ aliased = FALSE
    /\ direct = 0
    /\ scenario = "idle"

\* a session: a checker with the default configuration
Init ==
    /\ OthersIdle
    /\ InitWith(SessionFrames, {DefaultThreshold}, {DefaultRequiredColumns})
    /\ TransformerIdle

\* every frame and every configuration
InitEach ==
    /\ OthersIdle
    /\ InitWith(Frames, Thresholds, RequiredChoices)
    /\ TransformerIdle

\* the caller's tuple after a call on frame f that hands it no new tuple
Held(f) ==
    IF report.made /\ f # report.frame THEN [report EXCEPT !.between = TRUE] ELSE report

\* a direct call of one check_* method, r its outcome: the method writes to
\* self.checks_passed and self.issues in place, which are the very objects
\* of the caller's tuple while aliased holds
DirectCall(name, f, m, r) ==
    /\ direct < MaxDirect
    /\ direct' = direct + 1
    /\ checks_passed' = r.checks_passed
    /\ issues' = r.issues
    /\ last' = [op |-> name, frame |-> f, min_rows |-> m, raised |-> r.raised, ret |-> r.ret]
    /\ report' = Held(f)
    /\ UNCHANGED <<null_threshold, required_columns, df, aliased>>
    /\ UNCHANGED <<tvars, ovars>>

CheckSchema(f) ==
    LET r == check_schema(self, f) IN
    /\ DirectCall("check_schema", f, 0, r)
    /\ scenario' = "idle"

CheckNullValues(f) ==
    LET r == check_null_values(self, f) IN
    /\ DirectCall("check_null_values", f, 0, r)
    /\ scenario' = "idle"

CheckDataTypes(f) ==
    LET r == check_data_types(self, f) IN
    /\ DirectCall("check_data_types", f, 0, r)
    /\ scenario' = "idle"

\* the rows of f the caller sees with a high below the low
BadRows(f) ==
    IF "high" \in f.columns /\ "low" \in f.columns
    THEN {i \in 1..len(f) : /\ f.data["high"][i].t = "num"
                            /\ f.data["low"][i].t = "num"
                            /\ f.data["low"][i].v > f.data["high"][i].v}
    ELSE {}

\* scenario follows the caller through "check_value_ranges runs on df, which
\* has a row with high < low; the caller repairs df; check_value_ranges runs
\* again"
CheckValueRanges(f) ==
    LET r == check_value_ranges(self, f) IN
    /\ DirectCall("check_value_ranges", f, 0, r)
    /\ scenario' =
         IF f # df \/ r.raised THEN "idle"
         ELSE IF BadRows(df) # {} THEN "flagged"
         ELSE IF scenario = "repaired" THEN "rechecked"
         ELSE "idle"

CheckTemporalConsistency(f) ==
    LET r == check_temporal_consistency(self, f) IN
    /\ DirectCall("check_temporal_consistency", f, 0, r)
    /\ scenario' = "idle"

CheckSufficientData(f, m) ==
    LET r == check_sufficient_data(self, f, m) IN
    /\ DirectCall("check_sufficient_data", f, m, r)
    /\ scenario' = "idle"

\* all_passed, checks, issues = checker.run_all_checks(f, m): the tuple holds
\* self.checks_passed and self.issues themselves, not copies.  keep: the
\* caller goes on holding the tuple of an earlier call and drops this one
RunAllChecks(f, m, keep) ==
    LET r == run_all_checks(self, f, m) IN
    /\ checks_passed' = r.checks_passed
    /\ issues' = r.issues
    /\ last' = [op |-> "run_all_checks", frame |-> f, min_rows |-> m,
                raised |-> r.raised, ret |-> r.ret]
    /\ IF r.raised \/ (keep /\ report.made)
       THEN \* self.checks_passed and self.issues are new objects now
            /\ report' = Held(f)
            /\ aliased' = FALSE
       ELSE /\ report' = [made |-> TRUE, frame |-> f, min_rows |-> m, result |-> Result(r),
                          between |-> FALSE]
            /\ aliased' = TRUE
    /\ direct' = 0
    /\ scenario' = "idle"
    /\ UNCHANGED <<null_threshold, required_columns, df>>
    /\ UNCHANGED <<tvars, ovars>>

\* report = checker.generate_report(f): last.ret is the text.  The
\* run_all_checks inside rebinds self.checks_passed and self.issues, so the
\* tuple the caller holds is cut loose from the checker
GenerateReport(f) ==
    LET r == generate_report(self, f) IN
    /\ checks_passed' = r.checks_passed
    /\ issues' = r.issues
    /\ last' = [op |-> "generate_report", frame |-> f, min_rows |-> DefaultMinRows,
                raised |-> r.raised, ret |-> r.ret]
    /\ aliased' = FALSE
    /\ direct' = 0
    /\ scenario' = "idle"
    /\ report' = Held(f)
    /\ UNCHANGED <<null_threshold, required_columns, df>>
    /\ UNCHANGED <<tvars, ovars>>

\* the caller repairs a row of its frame whose high is below its low
\* (df.loc[df.index[i], 'high'] = ...), leaving the checker alone
RepairRow(i) ==
    /\ i \in BadRows(df)
    /\ df' = [df EXCEPT !.data["high"][i] = df.data["low"][i]]
    /\ scenario' = IF scenario = "flagged"
                   THEN (IF BadRows(df') = {} THEN "repaired" ELSE "flagged")
                   ELSE "idle"
    /\ direct' = 0
    /\ UNCHANGED <<null_threshold, required_columns, checks_passed, issues, last,
                   report, aliased>>
    /\ UNCHANGED <<tvars, ovars>>

\* a session: any calls in any order, on the caller's frame or the other one,
\* the frames themselves left alone
Next ==
    \/ \E f \in Args : CheckSchema(f)
    \/ \E f \in Args : CheckNullValues(f)
    \/ \E f \in Args : CheckDataTypes(f)
    \/ \E f \in Args : CheckValueRanges(f)
    \/ \E f \in Args : CheckTemporalConsistency(f)
    \/ \E f \in Args, m \in MinRowsChoices : CheckSufficientData(f, m)
    \/ \E f \in Args, m \in MinRowsChoices, keep \in BOOLEAN : RunAllChecks(f, m, keep)
    \/ \E f \in Args : GenerateReport(f)

Spec == Init /\ [][Next]_vars

\* one call on a new checker, for every frame of Frames; and when that call
\* was a check_value_ranges that flagged high < low, the caller repairs the
\* rows and calls check_value_ranges once more
Fresh == last.op = "__init__"

NextEach ==
    \/ Fresh /\ CheckSchema(df)
    \/ Fresh /\ CheckNullValues(df)
    \/ Fresh /\ CheckDataTypes(df)
    \/ Fresh /\ CheckValueRanges(df)
    \/ Fresh /\ CheckTemporalConsistency(df)
    \/ Fresh /\ \E m \in MinRowsChoices : CheckSufficientData(df, m)
    \/ Fresh /\ \E m \in MinRowsChoices : RunAllChecks(df, m, FALSE)
    \/ Fresh /\ GenerateReport(df)
    \/ scenario = "flagged" /\ \E i \in 1..len(df) : RepairRow(i)
    \/ scenario = "repaired" /\ CheckValueRanges(df)

SpecEach == InitEach /\ [][NextEach]_vars


(***************************************************************************)
(* The claims.  The frame of a claim is last.frame, the frame of the       *)
(* caller's last call.  What a frame "has" is stated here from the cells,  *)
(* apart from the checker's own counting above.                            *)
(***************************************************************************)
FreshSelf == [checks_passed |-> EmptyDict, issues |-> <<>>]

CellsOf(f) == f.columns \X (1..len(f))

NullCells(f) == {p \in CellsOf(f) : f.data[p[1]][p[2]] = NaN}

IsNegative(c) == c.t = "num" /\ c.v < 0

\* the price columns of f with a negative cell
NegativePriceColumns(f) ==
    {c \in {"open", "high", "low", "close"} \cap f.columns :
        \E i \in 1..len(f) : IsNegative(f.data[c][i])}

HasNegativeVolume(f) ==
    "volume" \in f.columns /\ \E i \in 1..len(f) : IsNegative(f.data["volume"][i])

RangeMessages == {"Found negative values in column", "Found negative volume values",
                  "Found rows where high < low"}

\* the issues of the list that check_value_ranges writes
RangeIssues(is) == {i \in 1..Len(is) : is[i].msg \in RangeMessages}

StrictlyIncreasing(ix) == \A i, j \in 1..Len(ix) : i < j => ix[i] < ix[j]

Bit(b) == IF b THEN 1 ELSE 0

\* C1: run_all_checks never raises for a data-quality problem: for every
\* frame (missing columns, non-numeric values, a non-timestamp index, zero
\* rows) the call returns its triple.
C1_NeverRaises ==
    last.op = "run_all_checks" => ~last.raised

\* C2: run_all_checks executes all six checks on every call: after the call
\* checks_passed has exactly the six keys, also when an earlier check failed.
C2_AllSixChecksRun ==
    last.op = "run_all_checks" => DOMAIN checks_passed = CheckNames

\* C3: the all_passed that run_all_checks returns is true iff each of the six
\* checks, called alone on that frame and min_rows, returns true.
C3_AllPassedIsConjunction ==
    (last.op = "run_all_checks" /\ ~last.raised) =>
        (last.ret <=>
            /\ check_schema(FreshSelf, last.frame).ret
            /\ check_null_values(FreshSelf, last.frame).ret
            /\ check_data_types(FreshSelf, last.frame).ret
            /\ check_value_ranges(FreshSelf, last.frame).ret
            /\ check_temporal_consistency(FreshSelf, last.frame).ret
            /\ check_sufficient_data(FreshSelf, last.frame, last.min_rows).ret)

\* a run_all_checks that returned false because exactly one check failed
C3_Witness ==
    /\ last.op = "run_all_checks" /\ ~last.raised /\ ~last.ret
    /\ Cardinality({k \in DOMAIN checks_passed : ~checks_passed[k]}) = 1

\* C4: run_all_checks on the frame and min_rows of the tuple the caller holds
\* from an earlier call returns, and returns the same (all_passed, checks,
\* issues), whatever was called in between.
C4_SameFrameSameResult ==
    (/\ last.op = "run_all_checks"
     /\ report.made
     /\ report.frame = last.frame
     /\ report.min_rows = last.min_rows) =>
        /\ ~last.raised
        /\ report.result = [raised |-> FALSE, all_passed |-> last.ret,
                            checks |-> checks_passed, issues |-> issues]

\* the second of two calls on a frame with issues, the first one's tuple kept
\* and the checker called on another frame in between
C4_Witness ==
    /\ last.op = "run_all_checks" /\ ~last.raised
    /\ report.made /\ ~aliased /\ report.between
    /\ report.frame = last.frame /\ report.min_rows = last.min_rows
    /\ report.result.issues # <<>>

\* C5: the checks mapping and the issues sequence of a returned tuple are
\* not changed by any later operation on the checker: while they are the
\* checker's own objects they hold what was returned.
C5_ReportImmutable ==
    (report.made /\ aliased) =>
        /\ checks_passed = report.result.checks
        /\ issues = report.result.issues

\* C6: check_null_values passes iff null cells / all cells of all columns is
\* at most null_threshold: it passes at equality and fails one null above.
C6_NullThresholdInclusive ==
    (last.op = "check_null_values" /\ CellsOf(last.frame) # {}) =>
        (last.ret <=>
            Cardinality(NullCells(last.frame)) * null_threshold.den
                <= null_threshold.num * Cardinality(CellsOf(last.frame)))

\* a frame with nulls whose null ratio equals the threshold, passing
C6_Witness ==
    /\ last.op = "check_null_values" /\ last.ret
    /\ NullCells(last.frame) # {}
    /\ Cardinality(NullCells(last.frame)) * null_threshold.den
           = null_threshold.num * Cardinality(CellsOf(last.frame))

\* C7: check_value_ranges on a new checker returns false iff a price column
\* has a negative value, volume has one or a row has high < low, and leaves
\* one issue per such price column, one for volume and one for high < low.
C7_RangeSubChecks ==
    (last.op = "check_value_ranges" /\ ~last.raised /\ scenario # "rechecked") =>
        LET f == last.frame
            n == Cardinality(NegativePriceColumns(f)) + Bit(HasNegativeVolume(f))
                 + Bit(BadRows(f) # {})
        IN  /\ last.ret = (n = 0)
            /\ Len(issues) = n
            /\ Cardinality(RangeIssues(issues)) = n
            /\ checks_passed["value_ranges"] = last.ret

\* one call that left several issues, one of them for high < low
C7_Witness ==
    /\ last.op = "check_value_ranges" /\ ~last.raised /\ scenario = "flagged"
    /\ NegativePriceColumns(last.frame) # {}
    /\ Len(issues) >= 2

\* C8 as claimed: after check_value_ranges flagged high < low and the rows
\* were repaired, a second check_value_ranges returns true and the checker
\* holds zero range issues.
C8_ZeroRangeIssuesAfterRepair ==
    (scenario = "rechecked" /\ NegativePriceColumns(df) = {} /\ ~HasNegativeVolume(df)) =>
        /\ last.ret = TRUE
        /\ RangeIssues(issues) = {}

\* C8 amended: check_value_ranges on a frame with high < low returns false
\* and leaves at least one issue; after the rows are repaired (no other
\* violation) the next check_value_ranges on the same checker returns true,
\* sets checks_passed['value_ranges'] and appends nothing, and the issue of
\* the first call is still in the list.
C8_RecheckAfterRepair ==
    [][/\ (last'.op = "check_value_ranges" /\ scenario' = "flagged") =>
              (last'.ret = FALSE /\ RangeIssues(issues') # {})
       /\ (/\ scenario = "repaired" /\ scenario' = "rechecked"
           /\ NegativePriceColumns(df) = {} /\ ~HasNegativeVolume(df)) =>
              /\ last'.ret = TRUE
              /\ checks_passed'["value_ranges"]
              /\ issues' = issues
              /\ RangeIssues(issues') # {}]_vars

\* the second call, on the repaired frame
C8_Witness ==
    /\ scenario = "rechecked"
    /\ NegativePriceColumns(df) = {} /\ ~HasNegativeVolume(df)
    /\ last.ret = TRUE
    /\ issues # <<>>

\* C9: check_temporal_consistency returns true iff the index is a timestamp
\* index whose timestamps strictly increase.
C9_TemporalStrictlyIncreasing ==
    last.op = "check_temporal_consistency" =>
        (last.ret <=> /\ last.frame.index_type = "DatetimeIndex"
                      /\ StrictlyIncreasing(last.frame.index))

\* a timestamp index with no duplicate but an out-of-order pair, failing
C9_Witness ==
    /\ last.op = "check_temporal_consistency" /\ ~last.ret
    /\ last.frame.index_type = "DatetimeIndex"
    /\ \A i, j \in 1..len(last.frame) : i # j => last.frame.index[i] # last.frame.index[j]

\* C10: check_schema on a new checker returns false and records the one
\* "Missing required columns" issue iff a required column is absent;
\* otherwise it returns true, sets checks_passed['schema'] and records none.
C10_SchemaCheck ==
    last.op = "check_schema" =>
        IF \E c \in required_columns : c \notin last.frame.columns
        THEN /\ last.ret = FALSE
             /\ checks_passed["schema"] = FALSE
             /\ Len(issues) = 1
             /\ issues[1].msg = "Missing required columns"
             /\ issues[1].cols = required_columns \ last.frame.columns
        ELSE /\ last.ret = TRUE
             /\ checks_passed["schema"] = TRUE
             /\ issues = <<>>

\* some required columns present, one absent: the check fails
C10_Witness ==
    /\ last.op = "check_schema" /\ ~last.ret
    /\ required_columns \cap last.frame.columns # {}

\* C11: whatever the checker was called with before, the text generate_report
\* returns has the per-check lines, the numbered issues and the overall
\* status of run_all_checks(frame, min_rows = 100) on a new checker, and the
\* overall status is PASSED iff each of the six checks passes on the frame
C11_ReportIsDefaultRun ==
    (last.op = "generate_report" /\ ~last.raised) =>
        LET f == last.frame
            r == run_all_checks(FreshSelf, f, DefaultMinRows)
        IN  /\ DOMAIN last.ret.lines = CheckNames
            /\ \A k \in CheckNames :
                   last.ret.lines[k] = IF r.checks_passed[k] THEN "PASSED" ELSE "FAILED"
            /\ last.ret.issues = [i \in 1..Len(r.issues) |-> <<i, r.issues[i]>>]
            /\ last.ret.overall = (IF r.ret THEN "PASSED" ELSE "FAILED")
            /\ (last.ret.overall = "PASSED") <=>
                   /\ check_schema(FreshSelf, f).ret
                   /\ check_null_values(FreshSelf, f).ret
                   /\ check_data_types(FreshSelf, f).ret
                   /\ check_value_ranges(FreshSelf, f).ret
                   /\ check_temporal_consistency(FreshSelf, f).ret
                   /\ check_sufficient_data(FreshSelf, f, DefaultMinRows).ret

\* a report with overall status PASSED, made after a run_all_checks on
\* another frame and with another min_rows had failed
C11_Witness ==
    /\ last.op = "generate_report"
    /\ ~last.raised
    /\ last.ret.overall = "PASSED"
    /\ report.made
    /\ report.frame # last.frame
    /\ report.min_rows # DefaultMinRows
    /\ ~report.result.all_passed

(***************************************************************************)
(* StockDataTransformer (src/data/transform.py).                           *)
(*                                                                         *)
(* A frame is [index, columns, data]: index the timestamps (hours since    *)
(* 2024-01-01 00:00, a Monday), columns the column names in frame order,   *)
(* data the cells of each column.  All columns are float64: the integer v  *)
(* of a cell stands for the number v / Scale, a quotient is floored to     *)
(* that unit, and a cell can also be NaN, +inf or -inf.  Signed zeros and  *)
(* rounding below 1 / Scale are left out.                                  *)
(***************************************************************************)
Scale == 100

Inf(sgn) == [t |-> "inf", v |-> sgn]

Sign(x) == IF x < 0 THEN 0 - 1 ELSE 1

Abs(x) == IF x < 0 THEN 0 - x ELSE x

\* float64 a + b
fadd(a, b) ==
    IF a.t = "nan" \/ b.t = "nan" THEN NaN
    ELSE IF a.t = "inf" /\ b.t = "inf" THEN (IF a.v = b.v THEN a ELSE NaN)
    ELSE IF a.t = "inf" THEN a
    ELSE IF b.t = "inf" THEN b
    ELSE Num(a.v + b.v)

\* float64 -a
fneg(a) == IF a.t = "nan" THEN NaN ELSE [a EXCEPT !.v = 0 - a.v]

\* float64 a - b
fsub(a, b) == fadd(a, fneg(b))

\* float64 a / b: x / 0 is +inf or -inf, 0 / 0 and inf / inf are NaN
fdiv(a, b) ==
    IF a.t = "nan" \/ b.t = "nan" THEN NaN
    ELSE IF a.t = "inf" /\ b.t = "inf" THEN NaN
    ELSE IF a.t = "inf" THEN Inf(a.v * Sign(b.v))
    ELSE IF b.t = "inf" THEN Num(0)
    ELSE IF b.v = 0 THEN (IF a.v = 0 THEN NaN ELSE Inf(Sign(a.v)))
    ELSE Num((a.v * Scale) \div b.v)

\* float64 |a|
fabs(a) == IF a.t = "nan" THEN NaN ELSE [a EXCEPT !.v = Abs(a.v)]

\* k * a for a whole number k > 0
ftimes(k, a) == IF a.t = "num" THEN Num(k * a.v) ELSE a

RECURSIVE Isqrt(_)
\* the square root of x, floored
Isqrt(x) ==
    IF x < 2 THEN x
    ELSE LET r == 2 * Isqrt(x \div 4)
         IN  IF (r + 1) * (r + 1) <= x THEN r + 1 ELSE r

\* np.log of a ratio r > 0 given in units of 1 / Scale: with
\* z = (r - 1) / (r + 1), ln r = 2 (z + z^3 / 3 + ...)
Ln(v) ==
    LET z == ((v - Scale) * Scale) \div (v + Scale)
    IN  2 * z + (2 * z * z * z) \div (3 * Scale * Scale)

\* np.log(a): log 0 is -inf, the log of a negative number is NaN
flog(a) ==
    IF a.t = "nan" THEN NaN
    ELSE IF a.t = "inf" THEN (IF a.v > 0 THEN a ELSE NaN)
    ELSE IF a.v < 0 THEN NaN
    ELSE IF a.v = 0 THEN Inf(0 - 1)
    ELSE Num(Ln(a.v))

(***************************************************************************)
(* pandas.Series operations, a series being the cells of one column.       *)
(***************************************************************************)
\* s.shift(k): the cell of row i - k, NaN where there is none
shift(s, k) ==
    [i \in 1..Len(s) |-> IF i - k \in 1..Len(s) THEN s[i - k] ELSE NaN]

\* mutant: the difference to the next row
diff_forward(s) == [i \in 1..Len(s) |-> fsub(shift(s, 0 - 1)[i], s[i])]

\* s.diff()
diff(s) == [i \in 1..Len(s) |-> fsub(s[i], shift(s, 1)[i])]

\* s.pct_change(): s / s.shift(1) - 1 (series without missing prices: the
\* fill of missing values that pct_change may apply first is left out)
pct_change(s) ==
    [i \in 1..Len(s) |-> fsub(fdiv(s[i], shift(s, 1)[i]), Num(Scale))]

\* mutant: the oldest row of the window is not looked at
full_window_but_oldest(s, w, i) == i >= w /\ \A j \in (i - w + 2)..i : s[j].t = "num"

\* .rolling(window = w) has a value at row i once rows i-w+1 .. i are all
\* there and hold numbers
full_window(s, w, i) == i >= w /\ \A j \in (i - w + 1)..i : s[j].t = "num"

RECURSIVE SumCells(_, _, _)
SumCells(s, lo, hi) == IF lo > hi THEN 0 ELSE s[lo].v + SumCells(s, lo + 1, hi)

RECURSIVE SumSquares(_, _, _, _)
\* the sum over rows lo..hi of (s[j] - c)^2
SumSquares(s, c, lo, hi) ==
    IF lo > hi THEN 0
    ELSE (s[lo].v - c) * (s[lo].v - c) + SumSquares(s, c, lo + 1, hi)

\* s.rolling(window = w).mean()
rolling_mean(s, w) ==
    [i \in 1..Len(s) |->
        IF full_window(s, w, i) THEN Num(SumCells(s, i - w + 1, i) \div w) ELSE NaN]

\* s.rolling(window = w).std(): the sample standard deviation (ddof = 1),
\* from the deviations from the window's last value; NaN for w = 1
rolling_std(s, w) ==
    [i \in 1..Len(s) |->
        IF w >= 2 /\ full_window(s, w, i)
        THEN LET c  == s[i].v
                 s1 == SumCells(s, i - w + 1, i) - w * c
                 s2 == SumSquares(s, c, i - w + 1, i)
             IN  Num(Isqrt((w * s2 - s1 * s1) \div (w * (w - 1))))
        ELSE NaN]

\* s.rolling(window = w).min()
rolling_min(s, w) ==
    [i \in 1..Len(s) |->
        IF full_window(s, w, i)
        THEN LET V == {s[j].v : j \in (i - w + 1)..i}
             IN  Num(CHOOSE m \in V : \A x \in V : m <= x)
        ELSE NaN]

\* s.rolling(window = w).max()
rolling_max(s, w) ==
    [i \in 1..Len(s) |->
        IF full_window(s, w, i)
        THEN LET V == {s[j].v : j \in (i - w + 1)..i}
             IN  Num(CHOOSE m \in V : \A x \in V : m >= x)
        ELSE NaN]

RECURSIVE ewm_upto(_, _, _)
\* the first i values of s.ewm(span, adjust = False).mean():
\* y[1] = s[1], y[t] = (1 - a) y[t-1] + a s[t] with a = 2 / (span + 1)
ewm_upto(s, span, i) ==
    IF i = 0 THEN <<>>
    ELSE LET p == ewm_upto(s, span, i - 1)
             y == IF i = 1 THEN s[1]
                  ELSE IF p[i - 1].t # "num" THEN s[i]
                  ELSE IF s[i].t # "num" THEN p[i - 1]
                  ELSE Num(((span - 1) * p[i - 1].v + 2 * s[i].v) \div (span + 1))
         IN  Append(p, y)

ewm_mean(s, span) == ewm_upto(s, span, Len(s))

(***************************************************************************)
(* Frames of the transformer, and what a stage hands back: the             *)
(* transformer's fields after the call, the frame returned, or raised      *)
(* (KeyError on a column that is not there).                               *)
(***************************************************************************)
Columns(f) == {f.columns[k] : k \in 1..Len(f.columns)}

\* df[c] = series: a new column goes last, an old one keeps its place
SetColumn(f, c, series) ==
    LET cs == IF c \in Columns(f) THEN f.columns ELSE Append(f.columns, c)
    IN  [index   |-> f.index,
         columns |-> cs,
         data    |-> [x \in Columns(f) \cup {c} |-> IF x = c THEN series ELSE f.data[x]]]

\* a column that holds the same value on every row (df[c] = 0)
Constant(f, v) == [i \in 1..len(f) |-> v]

Returned(s, names, f) ==
    [target_column |-> s.target_column, feature_names |-> names, df |-> f,
     raised |-> FALSE]

\* an exception leaves the method: nothing is returned, whatever f was
Raised(s, f) ==
    [target_column |-> s.target_column, feature_names |-> s.feature_names,
     df |-> NoFrame, raised |-> TRUE]

\* the decimal text of a window or lag, for the f-strings of column names
Digits == <<"1", "2", "3", "4", "5", "6", "7", "8", "9", "10">>

\* calculate_volatility, create_rolling_features: windows = [3, 5, 10]
DefaultWindows == <<3, 5, 10>>

\* create_lag_features: lags = [1, 2, 3]
DefaultLags == <<1, 2, 3>>

(***************************************************************************)
(* StockDataTransformer.calculate_returns                                  *)
(***************************************************************************)
\* mutant: the ratio to the previous price, the 1 not taken off
pct_change_ratio(s) ==
    [i \in 1..Len(s) |-> fdiv(s[i], shift(s, 1)[i])]

\* df[self.target_column].pct_change()
simple_returns(s) == pct_change(s)

\* np.log(df[self.target_column] / df[self.target_column].shift(1))
log_returns(s) == [i \in 1..Len(s) |-> flog(fdiv(s[i], shift(s, 1)[i]))]

calculate_returns(s, f) ==
    IF s.target_column \notin Columns(f) THEN Raised(s, f)
    ELSE LET x  == f.data[s.target_column]
             f1 == SetColumn(f, "returns", simple_returns(x))
             f2 == SetColumn(f1, "log_returns", log_returns(x))
         IN  Returned(s, s.feature_names \o <<"returns", "log_returns">>, f2)

(***************************************************************************)
(* StockDataTransformer.calculate_volatility                               *)
(***************************************************************************)
RECURSIVE volatility_loop(_, _, _)
\* for window in windows, from the k-th on; o is the outcome so far
volatility_loop(o, windows, k) ==
    IF k > Len(windows) THEN o
    ELSE LET w   == windows[k]
             col == "volatility_" \o Digits[w]
         IN  volatility_loop(
                 Returned(o, Append(o.feature_names, col),
                          SetColumn(o.df, col, rolling_std(o.df.data["returns"], w))),
                 windows, k + 1)

calculate_volatility(s, f) ==
    LET o == IF "returns" \notin Columns(f) THEN calculate_returns(s, f)
             ELSE Returned(s, s.feature_names, f)
    IN  IF o.raised THEN o ELSE volatility_loop(o, DefaultWindows, 1)

(***************************************************************************)
(* StockDataTransformer.create_lag_features                                *)
(***************************************************************************)
RECURSIVE lag_loop(_, _, _, _, _)
\* for col in columns: if col in df.columns: for lag in lags, from the j-th
\* column and the k-th lag on
lag_loop(o, columns, lags, j, k) ==
    IF j > Len(columns) THEN o
    ELSE IF columns[j] \notin Columns(o.df) \/ k > Len(lags)
    THEN lag_loop(o, columns, lags, j + 1, 1)
    ELSE LET col == columns[j] \o "_lag_" \o Digits[lags[k]]
         IN  lag_loop(
                 Returned(o, Append(o.feature_names, col),
                          SetColumn(o.df, col, shift(o.df.data[columns[j]], lags[k]))),
                 columns, lags, j, k + 1)

create_lag_features(s, f, columns) ==
    lag_loop(Returned(s, s.feature_names, f), columns, DefaultLags, 1, 1)

(***************************************************************************)
(* StockDataTransformer.create_rolling_features                            *)
(***************************************************************************)
\* the six columns of one window, in the order they are assigned
rolling_window_columns(f, x, w) ==
    LET d    == Digits[w]
        ma   == rolling_mean(x, w)
        std  == rolling_std(x, w)
        f1   == SetColumn(f, "close_ma_" \o d, ma)
        f2   == SetColumn(f1, "close_std_" \o d, std)
        f3   == SetColumn(f2, "close_min_" \o d, rolling_min(x, w))
        f4   == SetColumn(f3, "close_max_" \o d, rolling_max(x, w))
        f5   == SetColumn(f4, "bb_upper_" \o d,
                          [i \in 1..Len(x) |-> fadd(ma[i], ftimes(2, std[i]))])
    IN  SetColumn(f5, "bb_lower_" \o d,
                  [i \in 1..Len(x) |-> fsub(ma[i], ftimes(2, std[i]))])

\* the names of one window, in the order they are appended
rolling_window_names(w) ==
    LET d == Digits[w]
    IN  <<"close_ma_" \o d, "close_std_" \o d, "close_min_" \o d,
          "close_max_" \o d, "bb_upper_" \o d, "bb_lower_" \o d>>

RECURSIVE rolling_loop(_, _, _)
rolling_loop(o, windows, k) ==
    IF k > Len(windows) THEN o
    ELSE LET w == windows[k]
         IN  rolling_loop(
                 Returned(o, o.feature_names \o rolling_window_names(w),
                          rolling_window_columns(o.df, o.df.data[o.target_column], w)),
                 windows, k + 1)

create_rolling_features(s, f) ==
    IF s.target_column \notin Columns(f) THEN Raised(s, f)
    ELSE rolling_loop(Returned(s, s.feature_names, f), DefaultWindows, 1)

(***************************************************************************)
(* StockDataTransformer.create_technical_indicators                        *)
(***************************************************************************)
\* delta.where(delta > 0, 0): NaN > 0 is false, so a NaN becomes 0 too
gains(delta) ==
    [i \in 1..Len(delta) |->
        IF delta[i].t # "nan" /\ delta[i].v > 0 THEN delta[i] ELSE Num(0)]

\* -delta.where(delta < 0, 0)
losses(delta) ==
    [i \in 1..Len(delta) |->
        IF delta[i].t # "nan" /\ delta[i].v < 0 THEN fneg(delta[i]) ELSE Num(0)]

\* mutant: 100 - 100 / rs
rsi_without_one(gain, loss) ==
    fsub(Num(100 * Scale), fdiv(Num(100 * Scale), fdiv(gain, loss)))

\* rs = gain / loss; 100 - (100 / (1 + rs))
rsi_value(gain, loss) ==
    fsub(Num(100 * Scale), fdiv(Num(100 * Scale), fadd(Num(Scale), fdiv(gain, loss))))

\* the columns in the order they are assigned: rsi, macd, macd_signal,
\* macd_diff, momentum_3, momentum_5, then the volume indicators
indicator_columns(f, x) ==
    LET delta  == diff(x)
        gain   == rolling_mean(gains(delta), 7)
        loss   == rolling_mean(losses(delta), 7)
        exp1   == ewm_mean(x, 12)
        exp2   == ewm_mean(x, 26)
        macd   == [i \in 1..Len(x) |-> fsub(exp1[i], exp2[i])]
        signal == ewm_mean(macd, 9)
        f1 == SetColumn(f, "rsi", [i \in 1..Len(x) |-> rsi_value(gain[i], loss[i])])
        f2 == SetColumn(f1, "macd", macd)
        f3 == SetColumn(f2, "macd_signal", signal)
        f4 == SetColumn(f3, "macd_diff", [i \in 1..Len(x) |-> fsub(macd[i], signal[i])])
        f5 == SetColumn(f4, "momentum_3", [i \in 1..Len(x) |-> fsub(x[i], shift(x, 3)[i])])
        f6 == SetColumn(f5, "momentum_5", [i \in 1..Len(x) |-> fsub(x[i], shift(x, 5)[i])])
    IN  IF "volume" \notin Columns(f) THEN f6
        ELSE LET v    == f.data["volume"]
                 ma5  == rolling_mean(v, 5)
                 ma10 == rolling_mean(v, 10)
                 f7   == SetColumn(f6, "volume_ma_5", ma5)
                 f8   == SetColumn(f7, "volume_ma_10", ma10)
             IN  SetColumn(f8, "volume_ratio",
                           [i \in 1..Len(x) |-> fdiv(v[i], ma10[i])])

\* mutant: the six names appended inside the volume branch
indicator_names_in_branch(f) ==
    IF "volume" \in Columns(f)
    THEN <<"volume_ma_5", "volume_ma_10", "volume_ratio",
           "rsi", "macd", "macd_signal", "macd_diff", "momentum_3", "momentum_5">>
    ELSE <<>>

\* the names in the order they are appended: the volume indicators first
indicator_names(f) ==
    (IF "volume" \in Columns(f)
     THEN <<"volume_ma_5", "volume_ma_10", "volume_ratio">> ELSE <<>>)
    \o <<"rsi", "macd", "macd_signal", "macd_diff", "momentum_3", "momentum_5">>

create_technical_indicators(s, f) ==
    IF s.target_column \notin Columns(f) THEN Raised(s, f)
    ELSE Returned(s, s.feature_names \o indicator_names(f),
                  indicator_columns(f, f.data[s.target_column]))

(***************************************************************************)
(* StockDataTransformer.create_time_features, on a DatetimeIndex of the    *)
(* year 2024.                                                              *)
(***************************************************************************)
\* the day of the year, from 0, on which each month of 2024 starts
MonthStarts == <<0, 31, 60, 91, 121, 152, 182, 213, 244, 274, 305, 335>>

hour_of(ts) == ts % 24
dayofyear_of(ts) == ts \div 24
dayofweek_of(ts) == dayofyear_of(ts) % 7
month_of(ts) == Cardinality({m \in 1..12 : MonthStarts[m] <= dayofyear_of(ts)})
day_of(ts) == dayofyear_of(ts) - MonthStarts[month_of(ts)] + 1
quarter_of(ts) == ((month_of(ts) - 1) \div 3) + 1

\* np.sin and np.cos of 2 pi k / 24 for k = 0..23, in units of 1 / Scale
HourSin == <<0, 26, 50, 71, 87, 97, 100, 97, 87, 71, 50, 26,
             0, -26, -50, -71, -87, -97, -100, -97, -87, -71, -50, -26>>
HourCos == <<100, 97, 87, 71, 50, 26, 0, -26, -50, -71, -87, -97,
             -100, -97, -87, -71, -50, -26, 0, 26, 50, 71, 87, 97>>

\* np.sin and np.cos of 2 pi k / 7 for k = 0..6
DaySin == <<0, 78, 97, 43, -43, -97, -78>>
DayCos == <<100, 62, -22, -90, -90, -22, 62>>

\* mutant: .all() for .any()
has_hour_all(f) == \A i \in 1..len(f) : hour_of(f.index[i]) # 0

\* (df.index.hour != 0).any()
has_hour(f) == \E i \in 1..len(f) : hour_of(f.index[i]) # 0

create_time_features(s, f) ==
    LET n   == len(f)
        ix  == f.index
        f1  == IF has_hour(f)
               THEN SetColumn(f, "hour", [i \in 1..n |-> Num(hour_of(ix[i]) * Scale)])
               ELSE SetColumn(f, "hour", Constant(f, Num(0)))
        f2  == IF has_hour(f)
               THEN SetColumn(f1, "hour_sin", [i \in 1..n |-> Num(HourSin[hour_of(ix[i]) + 1])])
               ELSE SetColumn(f1, "hour_sin", Constant(f, Num(0)))
        f3  == IF has_hour(f)
               THEN SetColumn(f2, "hour_cos", [i \in 1..n |-> Num(HourCos[hour_of(ix[i]) + 1])])
               ELSE SetColumn(f2, "hour_cos", Constant(f, Num(Scale)))
        f4  == SetColumn(f3, "day_of_week", [i \in 1..n |-> Num(dayofweek_of(ix[i]) * Scale)])
        f5  == SetColumn(f4, "day_of_month", [i \in 1..n |-> Num(day_of(ix[i]) * Scale)])
        f6  == SetColumn(f5, "month", [i \in 1..n |-> Num(month_of(ix[i]) * Scale)])
        f7  == SetColumn(f6, "quarter", [i \in 1..n |-> Num(quarter_of(ix[i]) * Scale)])
        f8  == SetColumn(f7, "day_sin", [i \in 1..n |-> Num(DaySin[dayofweek_of(ix[i]) + 1])])
        f9  == SetColumn(f8, "day_cos", [i \in 1..n |-> Num(DayCos[dayofweek_of(ix[i]) + 1])])
    IN  Returned(s, s.feature_names \o
                    <<"hour", "hour_sin", "hour_cos", "day_of_week", "day_of_month",
                      "month", "quarter", "day_sin", "day_cos">>,
                 f9)

(***************************************************************************)
(* StockDataTransformer.create_target_variable                             *)
(***************************************************************************)
\* mutant: shift(horizon), the return of an earlier row
future_returns_backward(returns, horizon) == shift(returns, horizon)

\* df['returns'].shift(-horizon)
future_returns(returns, horizon) == shift(returns, 0 - horizon)

\* mutant: the window of size horizon that starts at offset horizon
realized_vol_from_horizon(returns, horizon) ==
    rolling_std(shift(returns, 0 - (2 * horizon - 1)), horizon)

\* df['returns'].shift(-horizon).rolling(window=horizon).std()
realized_vol(returns, horizon) ==
    rolling_std(shift(returns, 0 - horizon), horizon)

\* the three target columns; feature_names is left alone
target_columns(s, f, horizon) ==
    LET fr == future_returns(f.data["returns"], horizon)
        tv == [i \in 1..len(f) |-> fabs(fr[i])]
        f1 == SetColumn(f, "future_returns", fr)
        f2 == SetColumn(f1, "target_volatility", tv)
    IN  SetColumn(f2, "target_realized_vol",
                  IF horizon > 1 THEN realized_vol(f.data["returns"], horizon) ELSE tv)

\* mutant: the target columns recorded as features
create_target_variable_named(s, f, horizon) ==
    IF "returns" \notin Columns(f) THEN Raised(s, f)
    ELSE Returned(s, s.feature_names \o <<"target_volatility">>,
                  target_columns(s, f, horizon))

create_target_variable(s, f, horizon) ==
    IF "returns" \notin Columns(f) THEN Raised(s, f)
    ELSE Returned(s, s.feature_names, target_columns(s, f, horizon))

(***************************************************************************)
(* StockDataTransformer.transform                                          *)
(***************************************************************************)
\* mutant: no row dropped
dropna_nothing(f) == f

\* df.dropna(): the rows without a NaN, in order (inf is not missing)
dropna(f) ==
    LET keep == SelectSeq([i \in 1..len(f) |-> i],
                          LAMBDA i : \A c \in Columns(f) : f.data[c][i].t # "nan")
    IN  [index   |-> [k \in 1..Len(keep) |-> f.index[keep[k]]],
         columns |-> f.columns,
         data    |-> [c \in Columns(f) |-> [k \in 1..Len(keep) |-> f.data[c][keep[k]]]]]

\* mutant: the names of earlier calls kept
names_kept(s) == s

\* self.feature_names = []
names_reset(s) == [target_column |-> s.target_column, feature_names |-> <<>>]

\* df = self.calculate_volatility(df), on the outcome o of the step before
transform_volatility(o) ==
    IF o.raised THEN o ELSE calculate_volatility(o, o.df)

\* df = self.create_lag_features(df, columns=['close', 'returns', 'volume'])
transform_lags(o) ==
    IF o.raised THEN o
    ELSE create_lag_features(o, o.df, <<"close", "returns", "volume">>)

\* df = self.create_rolling_features(df)
transform_rolling(o) ==
    IF o.raised THEN o ELSE create_rolling_features(o, o.df)

\* df = self.create_technical_indicators(df)
transform_indicators(o) ==
    IF o.raised THEN o ELSE create_technical_indicators(o, o.df)

\* df = self.create_time_features(df)
transform_time(o) ==
    IF o.raised THEN o ELSE create_time_features(o, o.df)

\* df = self.create_target_variable(df, horizon=horizon)
transform_target(o, horizon) ==
    IF o.raised THEN o ELSE create_target_variable(o, o.df, horizon)

\* df = df.dropna(); return df
transform_dropna(o) ==
    IF o.raised THEN o ELSE Returned(o, o.feature_names, dropna(o.df))

\* mutant: a frame without the target column handed back as it came
transform_guarded(s, f, horizon) ==
    IF s.target_column \notin Columns(f) THEN Returned(names_reset(s), <<>>, f)
    ELSE transform_dropna(
             transform_target(
                 transform_time(
                     transform_indicators(
                         transform_rolling(
                             transform_lags(
                                 transform_volatility(
                                     calculate_returns(names_reset(s), f)))))),
                 horizon))

transform(s, f, horizon) ==
    transform_dropna(
        transform_target(
            transform_time(
                transform_indicators(
                    transform_rolling(
                        transform_lags(
                            transform_volatility(
                                calculate_returns(names_reset(s), f)))))),
            horizon))

(***************************************************************************)
(* VolatilityPredictor.prepare_features (src/models/train.py): the feature *)
(* columns training uses and save_model_locally persists.                  *)
(***************************************************************************)
exclude_cols ==
    {"target_volatility", "target_realized_vol", "future_returns", "symbol",
     "fetch_timestamp", "open", "high", "low", "close", "volume"}

\* [col for col in df.columns if col not in exclude_cols]
prepare_features(f) == SelectSeq(f.columns, LAMBDA col : col \notin exclude_cols)

(***************************************************************************)
(* The transformer's caller.                                               *)
(***************************************************************************)
\* rows of the frames handed to a single stage
MaxLen == 8

\* prices of a frame changed away from its base series
MaxEdits == 2

\* the largest horizon the caller asks for
MaxHorizon == 2

\* stage calls the caller makes besides its transform calls
MaxStages == 1

\* how far from the end of its frame the caller changes a price afterwards
MaxBack == 3

\* rows of a frame that is long enough for every window (the sample data of
\* the tests has 500)
ValidRows == 50

Horizons == 1..MaxHorizon

\* base price series of n rows: rising by 1 a row, falling by 1 a row, flat
BaseSeries(n) ==
    {[i \in 1..n |-> 100 + (i - 1)], [i \in 1..n |-> 120 - i], [i \in 1..n |-> 100]}

\* the prices a row is changed to
EditPrices == {99, 110}

RECURSIVE SeriesWithin(_, _)
\* the price series of n rows at most k changed prices away from a base
SeriesWithin(n, k) ==
    IF k = 0 THEN BaseSeries(n)
    ELSE LET P == SeriesWithin(n, k - 1)
         IN  P \cup {[c EXCEPT ![i] = v] : c \in P, i \in 1..n, v \in EditPrices}

\* pd.DataFrame({'open': .., 'high': .., 'low': .., 'close': .., 'volume': ..},
\* index=pd.date_range('2024-01-01', periods=n, freq=..)): prices c, a row
\* every step hours (1: hourly, 24: daily), with or without a volume column
PriceFrame(c, with_volume, step) ==
    LET n == Len(c) IN
    [index   |-> [i \in 1..n |-> (i - 1) * step],
     columns |-> <<"open", "high", "low", "close">>
                 \o (IF with_volume THEN <<"volume">> ELSE <<>>),
     data    |-> [x \in {"open", "high", "low", "close"}
                        \cup (IF with_volume THEN {"volume"} ELSE {}) |->
                    [i \in 1..n |->
                        CASE x = "open"   -> Num(c[i] * Scale)
                          [] x = "high"   -> Num((c[i] + 1) * Scale)
                          [] x = "low"    -> Num((c[i] - 1) * Scale)
                          [] x = "close"  -> Num(c[i] * Scale)
                          [] x = "volume" -> Num(((i % 3) + 1) * Scale)]]]

\* the frames handed to single stages: every series up to MaxLen rows,
\* hourly with volume; the base series also daily and without volume
StageFrames ==
    {PriceFrame(c, TRUE, 1) : c \in UNION {SeriesWithin(n, MaxEdits) : n \in 0..MaxLen}}
    \cup {PriceFrame(c, v, st) : c \in BaseSeries(MaxLen), v \in BOOLEAN, st \in {1, 24}}

\* the frames handed to one transform: base series too short for any
\* window, series just long enough for a few rows to come out, and long ones
TransformFrames ==
    {PriceFrame(c, v, st) :
        c \in BaseSeries(3) \cup SeriesWithin(11 + MaxHorizon, 1),
        v \in BOOLEAN, st \in {1, 24}}
    \cup {PriceFrame(c, TRUE, st) : c \in BaseSeries(ValidRows), st \in {1, 24}}

\* the frames a session on one transformer starts with
SessionPriceFrames ==
    {PriceFrame(c, v, 1) : c \in BaseSeries(11 + MaxHorizon), v \in BOOLEAN}

self_t == [target_column |-> target_column, feature_names |-> feature_names]

\* StockDataTransformer() and the raw frame of the caller
InitTransformer(frames) ==
    /\ OthersIdle
    /\ InitWith({CleanFrame(0)}, {DefaultThreshold}, {DefaultRequiredColumns})
    /\ target_column = "close"
    /\ feature_names = <<>>
    /\ raw_df \in frames
    /\ tlast = NoCall
    /\ tprev = NoTransform
    /\ stages = 0

\* what the caller had done last
Before == IF tlast.op \in {"__init__", "transform"} THEN tlast.op ELSE "stage"

\* df2 = transformer.<stage>(f, ...), o its outcome
StageCall(name, f, h, o) ==
    /\ stages' = stages + 1
    /\ feature_names' = o.feature_names
    /\ tlast' = [op |-> name, before |-> Before, horizon |-> h, raised |-> o.raised,
                 input |-> f, df |-> o.df]
    /\ UNCHANGED <<target_column, raw_df, tprev>>
    /\ UNCHANGED <<qvars, ovars>>

CalculateReturns(f) ==
    StageCall("calculate_returns", f, 0, calculate_returns(self_t, f))

CalculateVolatility(f) ==
    StageCall("calculate_volatility", f, 0, calculate_volatility(self_t, f))

CreateLagFeatures(f) ==
    StageCall("create_lag_features", f, 0, create_lag_features(self_t, f, <<"close">>))

CreateRollingFeatures(f) ==
    StageCall("create_rolling_features", f, 0, create_rolling_features(self_t, f))

CreateTechnicalIndicators(f) ==
    StageCall("create_technical_indicators", f, 0, create_technical_indicators(self_t, f))

CreateTimeFeatures(f) ==
    StageCall("create_time_features", f, 0, create_time_features(self_t, f))

CreateTargetVariable(f, h) ==
    StageCall("create_target_variable", f, h, create_target_variable(self_t, f, h))

\* df_transformed = transformer.transform(raw_df, horizon=h); the caller
\* keeps the first result and what feature_names was then
TransformCall(h, o) ==
    /\ feature_names' = o.feature_names
    /\ tlast' = [op |-> "transform", before |-> Before, horizon |-> h,
                 raised |-> o.raised, input |-> raw_df, df |-> o.df]
    /\ tprev' = IF tprev.made \/ o.raised THEN tprev
                ELSE [made |-> TRUE, input |-> raw_df, horizon |-> h, df |-> o.df,
                      feature_names |-> o.feature_names, stages |-> stages]
    /\ UNCHANGED <<target_column, raw_df, stages>>
    /\ UNCHANGED <<qvars, ovars>>

Transform(h) == TransformCall(h, transform(self_t, raw_df, h))

\* after a transform the caller changes the price of one of the last rows
\* of its raw frame (a later extraction of the same rows), leaving the
\* transformer alone
ChangePrice(i, v) ==
    /\ tprev.made
    /\ tlast.op = "transform"
    /\ raw_df = tprev.input
    /\ i \in 1..len(raw_df)
    /\ i > len(raw_df) - MaxBack
    /\ raw_df.data["close"][i] # Num(v * Scale)
    /\ raw_df' = [raw_df EXCEPT !.data["close"][i] = Num(v * Scale)]
    /\ UNCHANGED <<target_column, feature_names, tlast, tprev, stages>>
    /\ UNCHANGED <<qvars, ovars>>

\* one stage on a new transformer, as the tests call them; and
\* create_target_variable on the frame calculate_returns returned
TFresh == tlast.op = "__init__"

InitStage == InitTransformer(StageFrames)

NextStage ==
    \/ TFresh /\ CalculateReturns(raw_df)
    \/ TFresh /\ CalculateVolatility(raw_df)
    \/ TFresh /\ CreateLagFeatures(raw_df)
    \/ TFresh /\ CreateRollingFeatures(raw_df)
    \/ TFresh /\ CreateTechnicalIndicators(raw_df)
    \/ TFresh /\ CreateTimeFeatures(raw_df)
    \/ TFresh /\ \E h \in Horizons : CreateTargetVariable(raw_df, h)
    \/ /\ tlast.op = "calculate_returns"
       /\ \E h \in Horizons : CreateTargetVariable(tlast.df, h)

SpecStage == InitStage /\ [][NextStage]_vars

\* one transform on a new transformer, as the pipeline's transform task
\* makes it
InitTransform == InitTransformer(TransformFrames)

NextTransform == TFresh /\ \E h \in Horizons : Transform(h)

SpecTransform == InitTransform /\ [][NextTransform]_vars

\* a session on one transformer: transform calls on the caller's raw frame,
\* with the same horizon each time, a stage call before or between them,
\* a price of the raw frame changed after a transform
InitSession == InitTransformer(SessionPriceFrames)

NextSession ==
    \/ stages < MaxStages /\ CalculateReturns(raw_df)
    \/ stages < MaxStages /\ CalculateVolatility(raw_df)
    \/ stages < MaxStages /\ CreateLagFeatures(raw_df)
    \/ stages < MaxStages /\ CreateRollingFeatures(raw_df)
    \/ stages < MaxStages /\ CreateTechnicalIndicators(raw_df)
    \/ stages < MaxStages /\ CreateTimeFeatures(raw_df)
    \/ \E h \in Horizons : (tprev.made => h = tprev.horizon) /\ Transform(h)
    \/ \E i \in 1..len(raw_df), v \in EditPrices : ChangePrice(i, v)

SpecSession == InitSession /\ [][NextSession]_vars

(***************************************************************************)
(* The claims about the transformer.  Rows are named by their timestamps,  *)
(* which dropna keeps.                                                     *)
(***************************************************************************)
TargetColumns == {"future_returns", "target_volatility", "target_realized_vol"}

\* the frames a and b are the same up to and including the row of timestamp ts
SameUpTo(a, b, ts) ==
    /\ a.columns = b.columns
    /\ \A i \in 1..len(a) :
          a.index[i] <= ts =>
              /\ i <= len(b)
              /\ b.index[i] = a.index[i]
              /\ \A c \in Columns(a) : a.data[c][i] = b.data[c][i]
    /\ \A i \in 1..len(b) : b.index[i] <= ts => i <= len(a)

\* the two transforms the caller has the results of
TwoTransforms == tlast.op = "transform" /\ ~tlast.raised /\ tprev.made

\* C12: when two inputs of transform are the same up to row t, and both
\* outputs have row t, every column of the outputs other than the three
\* target columns has the same value at row t: a feature at t is determined
\* by the input rows up to t
C12_NoLeakage ==
    TwoTransforms =>
        \A k \in 1..len(tlast.df), j \in 1..len(tprev.df) :
            (/\ tlast.df.index[k] = tprev.df.index[j]
             /\ SameUpTo(tlast.input, tprev.input, tlast.df.index[k]))
            => \A c \in Columns(tlast.df) \ TargetColumns :
                   tlast.df.data[c][k] = tprev.df.data[c][j]

\* a price after row t was changed between two transforms and both outputs
\* have row t: its target changed with the price
C12_Witness ==
    /\ TwoTransforms
    /\ tlast.input # tprev.input
    /\ \E k \in 1..len(tlast.df), j \in 1..len(tprev.df) :
          /\ tlast.df.index[k] = tprev.df.index[j]
          /\ SameUpTo(tlast.input, tprev.input, tlast.df.index[k])
          /\ tlast.df.data["target_volatility"][k] # tprev.df.data["target_volatility"][j]

\* the result of one transform call that returned
Transformed == tlast.op = "transform" /\ ~tlast.raised

\* C13: the frame transform returns has no missing value in any column, raw,
\* derived or target
C13_NoMissingValues ==
    Transformed =>
        \A c \in Columns(tlast.df), k \in 1..len(tlast.df) : ~isnull(tlast.df.data[c][k])

\* an input of at least 50 rows, a horizon above 1: rows come out, fewer than
\* went in, with all the columns
C13_Witness ==
    /\ Transformed
    /\ len(tlast.input) >= ValidRows
    /\ tlast.horizon > 1
    /\ len(tlast.df) > 0
    /\ len(tlast.df) < len(tlast.input)
    /\ TargetColumns \subseteq Columns(tlast.df)
    /\ "volatility_10" \in Columns(tlast.df)

\* C14: a transform on the input and with the horizon of the transform the
\* caller kept returns the same frame and leaves the same feature_names,
\* whatever was called on the transformer in between
C14_TransformDeterministic ==
    (/\ TwoTransforms
     /\ tlast.input = tprev.input
     /\ tlast.horizon = tprev.horizon)
    => /\ tlast.df = tprev.df
       /\ feature_names = tprev.feature_names

\* the transform was made on a new transformer, then a stage was called,
\* which appended to feature_names, then transform again on the same input
C14_Witness ==
    /\ TwoTransforms
    /\ tlast.input = tprev.input
    /\ tlast.horizon = tprev.horizon
    /\ tprev.stages = 0
    /\ stages > 0
    /\ tlast.before = "stage"
    /\ len(tlast.df) > 0

\* C15: after transform, feature_names is, as a sequence, the list of
\* feature columns that prepare_features derives from the returned frame
\* (its non-raw, non-target columns in frame order)
C15_FeatureNamesInColumnOrder ==
    Transformed => feature_names = prepare_features(tlast.df)

RawColumns == {"open", "high", "low", "close", "volume"}

\* the names in a sequence
Names(seq) == {seq[k] : k \in 1..Len(seq)}

\* C16: after transform, feature_names holds each derived feature column of
\* the returned frame (a column that is neither raw nor a target) exactly
\* once, and no raw and no target column
C16_FeatureNamesComplete ==
    Transformed =>
        /\ Names(feature_names) = Columns(tlast.df) \ (RawColumns \cup TargetColumns)
        /\ Cardinality(Names(feature_names)) = Len(feature_names)
        /\ Names(feature_names) \cap RawColumns = {}
        /\ Names(feature_names) \cap TargetColumns = {}

\* a transform of a frame with a volume column, rows coming out
C16_Witness ==
    /\ Transformed
    /\ len(tlast.df) > 0
    /\ "volume" \in Columns(tlast.df)
    /\ "volume_ratio" \in Names(feature_names)
    /\ TargetColumns \subseteq Columns(tlast.df)

\* create_target_variable returned (it was given a frame with returns)
Targeted == tlast.op = "create_target_variable" /\ ~tlast.raised

\* C17, as claimed: for a horizon h > 1, target_realized_vol at row t is the
\* standard deviation of the h returns of rows t+h .. t+2h-1
C17_RealizedVolFromHorizon ==
    (Targeted /\ tlast.horizon > 1) =>
        LET h == tlast.horizon
            r == tlast.df.data["returns"]
        IN  \A i \in 1..len(tlast.df) :
                i + 2 * h - 1 <= len(tlast.df) =>
                    tlast.df.data["target_realized_vol"][i] = rolling_std(r, h)[i + 2 * h - 1]

\* C17, as the code has it: for a horizon h > 1, target_realized_vol at row
\* t is the standard deviation of the h returns of rows t+1 .. t+h, the
\* window that ends at offset h, and is undefined on the first h-1 rows and
\* on the last h rows
C17_RealizedVolNextReturns ==
    (Targeted /\ tlast.horizon > 1) =>
        LET h == tlast.horizon
            r == tlast.df.data["returns"]
        IN  \A i \in 1..len(tlast.df) :
                tlast.df.data["target_realized_vol"][i] =
                    IF i >= h /\ i + h <= len(tlast.df) THEN rolling_std(r, h)[i + h]
                    ELSE NaN

\* a row whose realized volatility is a number other than the standard
\* deviation of the returns of rows t+h .. t+2h-1
C17_Witness ==
    /\ Targeted
    /\ tlast.horizon > 1
    /\ \E i \in 1..len(tlast.df) :
          /\ i + 2 * tlast.horizon - 1 <= len(tlast.df)
          /\ tlast.df.data["target_realized_vol"][i].t = "num"
          /\ tlast.df.data["target_realized_vol"][i].v > 0
          /\ tlast.df.data["target_realized_vol"][i] #
                 rolling_std(tlast.df.data["returns"], tlast.horizon)[i + 2 * tlast.horizon - 1]

\* C18: create_target_variable with horizon h sets future_returns at row t
\* to the returns of row t+h, undefined on the last h rows, and
\* target_volatility to its absolute value, never negative; for h = 1
\* target_realized_vol equals target_volatility on every row
C18_TargetColumns ==
    Targeted =>
        LET h  == tlast.horizon
            n  == len(tlast.df)
            r  == tlast.df.data["returns"]
            fr == tlast.df.data["future_returns"]
            tv == tlast.df.data["target_volatility"]
        IN  /\ \A i \in 1..n :
                  /\ fr[i] = IF i + h <= n THEN r[i + h] ELSE NaN
                  /\ tv[i].t = fr[i].t
                  /\ tv[i].v = (IF fr[i].v < 0 THEN 0 - fr[i].v ELSE fr[i].v)
                  /\ tv[i].t = "num" => tv[i].v >= 0
            /\ h = 1 => tlast.df.data["target_realized_vol"] = tv

\* horizon 1 on a frame where a price falls: a negative future return, its
\* positive target, and the last row undefined
C18_Witness ==
    /\ Targeted
    /\ tlast.horizon = 1
    /\ len(tlast.df) >= 3
    /\ isnull(tlast.df.data["future_returns"][len(tlast.df)])
    /\ \E i \in 1..len(tlast.df) :
          /\ tlast.df.data["future_returns"][i].t = "num"
          /\ tlast.df.data["future_returns"][i].v < 0
          /\ tlast.df.data["target_volatility"][i].v > 0
          /\ tlast.df.data["target_realized_vol"][i].v > 0

C20_RsiBounds ==
    (tlast.op = "create_technical_indicators" /\ ~tlast.raised) =>
        \A i \in 1..len(tlast.df) :
            LET c == tlast.df.data["rsi"][i]
            IN  \/ isnull(c)
                \/ c.t = "num" /\ c.v >= 0 /\ c.v <= 100 * Scale

\* seven rows without a falling price and with a rising one: the average loss
\* is 0 and the rsi is 100
C20_Witness ==
    /\ tlast.op = "create_technical_indicators"
    /\ ~tlast.raised
    /\ \E i \in 7..len(tlast.df) :
          /\ \A j \in (i - 5)..i :
                tlast.input.data["close"][j].v >= tlast.input.data["close"][j - 1].v
          /\ \E j \in (i - 5)..i :
                tlast.input.data["close"][j].v > tlast.input.data["close"][j - 1].v
          /\ tlast.df.data["rsi"][i] = Num(100 * Scale)


(***************************************************************************)
(* A transformer built with any target_column, on frames that have or lack *)
(* the columns it reads.                                                   *)
(***************************************************************************)
\* StockDataTransformer(target_column=...)
TargetColumnChoices == {"close", "open", "adj_close"}

\* df.drop(columns=...)
WithoutColumns(f, gone) ==
    [index   |-> f.index,
     columns |-> SelectSeq(f.columns, LAMBDA c : c \notin gone),
     data    |-> [c \in Columns(f) \ gone |-> f.data[c]]]

ConfiguredFrames ==
    {WithoutColumns(PriceFrame(c, v, st), gone) :
        c \in BaseSeries(11 + MaxHorizon), v \in BOOLEAN, st \in {1, 24},
        gone \in {{}, {"close"}, {"open"}}}

InitConfigured ==
    /\ OthersIdle
    /\ InitWith({CleanFrame(0)}, {DefaultThreshold}, {DefaultRequiredColumns})
    /\ target_column \in TargetColumnChoices
    /\ feature_names = <<>>
    /\ raw_df \in ConfiguredFrames
    /\ tlast = NoCall
    /\ tprev = NoTransform
    /\ stages = 0

NextConfigured == TFresh /\ \E h \in Horizons : Transform(h)

SpecConfigured == InitConfigured /\ [][NextConfigured]_vars

\* C21: transform raises, and returns no frame, whenever the configured
\* target_column is not a column of the input frame
C21_RaisesWithoutTargetColumn ==
    (tlast.op = "transform" /\ target_column \notin Columns(tlast.input)) =>
        /\ tlast.raised
        /\ tlast.df = NoFrame
        /\ ~tprev.made

\* transform was called on a frame with rows that has close but not the
\* configured column, and raised
C21_Witness ==
    /\ tlast.op = "transform"
    /\ target_column \notin Columns(tlast.input)
    /\ "close" \in Columns(tlast.input)
    /\ len(tlast.input) > 0
    /\ tlast.raised


\* the features computed from the volume column
VolumeFeatures ==
    {"volume_lag_1", "volume_lag_2", "volume_lag_3",
     "volume_ma_5", "volume_ma_10", "volume_ratio"}

\* the lags of the close column
CloseLags == {"close_lag_1", "close_lag_2", "close_lag_3"}

\* every other feature a transform of a full frame derives
OtherFeatures ==
    {"returns", "log_returns", "volatility_3", "volatility_5", "volatility_10",
     "returns_lag_1", "returns_lag_2", "returns_lag_3",
     "close_ma_3", "close_std_3", "close_min_3", "close_max_3", "bb_upper_3", "bb_lower_3",
     "close_ma_5", "close_std_5", "close_min_5", "close_max_5", "bb_upper_5", "bb_lower_5",
     "close_ma_10", "close_std_10", "close_min_10", "close_max_10", "bb_upper_10",
     "bb_lower_10",
     "rsi", "macd", "macd_signal", "macd_diff", "momentum_3", "momentum_5",
     "hour", "hour_sin", "hour_cos", "day_of_week", "day_of_month", "month", "quarter",
     "day_sin", "day_cos"}
    \cup CloseLags

\* transform was called on a frame with the target column and no volume
WithoutVolume ==
    /\ tlast.op = "transform"
    /\ target_column \in Columns(tlast.input)
    /\ "volume" \notin Columns(tlast.input)

\* C22 as stated: on a frame with the target column and no volume column
\* transform returns, no volume feature is in the frame or in feature_names,
\* and every other derived feature is in both
C22_VolumeSkippedRestProduced ==
    WithoutVolume =>
        /\ ~tlast.raised
        /\ VolumeFeatures \cap (Columns(tlast.df) \cup Names(feature_names)) = {}
        /\ OtherFeatures \subseteq Columns(tlast.df)
        /\ OtherFeatures \subseteq Names(feature_names)
        /\ TargetColumns \subseteq Columns(tlast.df)

\* C22 amended: the same, the lags of close being produced only when the
\* frame has a close column
C22_VolumeSkippedRestProducedOfPresent ==
    WithoutVolume =>
        /\ ~tlast.raised
        /\ VolumeFeatures \cap (Columns(tlast.df) \cup Names(feature_names)) = {}
        /\ LET rest == IF "close" \in Columns(tlast.input) THEN OtherFeatures
                       ELSE OtherFeatures \ CloseLags
           IN  /\ rest \subseteq Columns(tlast.df)
               /\ rest \subseteq Names(feature_names)
               /\ ("close" \notin Columns(tlast.input) =>
                      CloseLags \cap (Columns(tlast.df) \cup Names(feature_names)) = {})
        /\ TargetColumns \subseteq Columns(tlast.df)

\* a transform of a frame with close and without volume returned rows
C22_Witness ==
    /\ WithoutVolume
    /\ "close" \in Columns(tlast.input)
    /\ ~tlast.raised
    /\ len(tlast.df) > 0
    /\ "rsi" \in Columns(tlast.df)


\* create_time_features was called on its own
TimeFeatured == tlast.op = "create_time_features"

\* the timestamps of a frame are all at midnight: no sub-day resolution
DailyStamps(f) == \A i \in 1..len(f) : f.index[i] % 24 = 0

\* C23: create_time_features returns for every frame, with hour, hour_sin and
\* hour_cos as columns and as feature names; on timestamps without sub-day
\* resolution they are 0, 0 and 1 on every row, otherwise the hour of the
\* row's timestamp and the sine and cosine of 2 pi hour / 24 (the cosine
\* being the sine a quarter period on)
C23_HourFeatures ==
    TimeFeatured =>
        /\ ~tlast.raised
        /\ {"hour", "hour_sin", "hour_cos"} \subseteq Columns(tlast.df)
        /\ {"hour", "hour_sin", "hour_cos"} \subseteq Names(feature_names)
        /\ len(tlast.df) = len(tlast.input)
        /\ \A i \in 1..len(tlast.input) :
              LET h == tlast.input.index[i] % 24 IN
              IF DailyStamps(tlast.input)
              THEN /\ tlast.df.data["hour"][i] = Num(0)
                   /\ tlast.df.data["hour_sin"][i] = Num(0)
                   /\ tlast.df.data["hour_cos"][i] = Num(Scale)
              ELSE /\ tlast.df.data["hour"][i] = Num(h * Scale)
                   /\ tlast.df.data["hour_sin"][i] = Num(HourSin[h + 1])
                   /\ tlast.df.data["hour_cos"][i] = Num(HourSin[((h + 6) % 24) + 1])

\* create_time_features was called on an hourly frame whose first row is at
\* midnight and whose sixth is at 05:00
C23_Witness ==
    /\ TimeFeatured
    /\ ~tlast.raised
    /\ len(tlast.df) >= 6
    /\ tlast.df.data["hour"][1] = Num(0)
    /\ tlast.df.data["hour"][6] = Num(5 * Scale)
    /\ tlast.df.data["hour_sin"][6] = Num(97)


(***************************************************************************)
(* Part 3: airflow/dags/stock_volatility_dag.py, one scheduled run of the  *)
(* DAG stock_volatility_pipeline.  The scheduler runs a task instance once *)
(* all its upstream tasks have succeeded (trigger rule all_success), runs  *)
(* it again after a failure while tries are left, and marks the tasks      *)
(* below a failed one upstream_failed.                                     *)
(***************************************************************************)
\* default_args: 'retries': 1
Retries == 1
\* quality_check: checker.run_all_checks(df, min_rows=100)
DagMinRows == 100

Tasks == {"extract_data", "quality_check", "transform_data",
          "generate_data_profile", "train_model", "version_data_dvc"}

\* the wiring with the trainer next to profiling and versioning
EdgesTrainBeside ==
    {<<"extract_data", "quality_check">>, <<"quality_check", "transform_data">>,
     <<"transform_data", "generate_data_profile">>,
     <<"transform_data", "version_data_dvc">>,
     <<"transform_data", "train_model">>}

\* task_extract >> task_quality >> task_transform
\*     >> [task_profile, task_version] >> task_train
Edges ==
    {<<"extract_data", "quality_check">>, <<"quality_check", "transform_data">>,
     <<"transform_data", "generate_data_profile">>,
     <<"transform_data", "version_data_dvc">>,
     <<"generate_data_profile", "train_model">>,
     <<"version_data_dvc", "train_model">>}

upstream_task_ids(t) == {e[1] : e \in {x \in Edges : x[2] = t}}

\* the raw frames an extraction can write: a clean one of a hundred rows,
\* the same with one defect, and a short one
ExtractedFrames ==
    {LongFrame, CleanFrame(MaxRows)} \cup {Apply(LongFrame, d) : d \in Defects(1)}

\* a run just triggered: no task instance has a state yet
NewRun ==
    [triggered  |-> TRUE,
     state      |-> [t \in Tasks |-> "none"],
     try_number |-> [t \in Tasks |-> 0],
     xcom       |-> {},
     files      |-> {},
     raw        |-> <<>>,
     quality    |-> <<>>,
     log        |-> <<>>]

Event(t, e) == [task |-> t, event |-> e]

\* all upstream tasks succeeded and the instance is waiting for a (re)try
Runnable(t) ==
    /\ dag.state[t] \in {"none", "up_for_retry"}
    /\ \A u \in upstream_task_ids(t) : dag.state[u] = "success"

\* the scheduler starts a task instance
StartTask(t) ==
    /\ dag.triggered
    /\ Runnable(t)
    /\ dag' = [dag EXCEPT !.state[t] = "running",
                          !.try_number[t] = @ + 1,
                          !.log = Append(@, Event(t, "start"))]
    /\ UNCHANGED <<qvars, tvars, service, split>>

\* the callable raised: retried while tries are left
AfterRaise(d, t) ==
    [d EXCEPT !.state[t] = IF d.try_number[t] <= Retries THEN "up_for_retry"
                           ELSE "failed",
              !.log = Append(@, Event(t, "raise"))]

\* the callable returned
AfterReturn(d, t) ==
    [d EXCEPT !.state[t] = "success", !.log = Append(@, Event(t, "return"))]

\* extract_data: the API answers with a frame, or the fetch raises
ExtractData(f, ok) ==
    /\ dag.triggered
    /\ dag.state["extract_data"] = "running"
    /\ dag' = IF ok
              THEN AfterReturn([dag EXCEPT !.raw = <<f>>,
                                           !.files = @ \cup {"raw_data"},
                                           !.xcom = @ \cup {"raw_data_path"}],
                               "extract_data")
              ELSE AfterRaise(dag, "extract_data")
    /\ UNCHANGED <<qvars, tvars, service, split>>

\* mutant: a failed check is logged and the task goes on
QualityChecked_advisory(r, g) ==
    IF r.raised \/ g.raised
    THEN AfterRaise([dag EXCEPT !.quality = <<[returned |-> FALSE, all_passed |-> FALSE]>>],
                    "quality_check")
    ELSE AfterReturn([dag EXCEPT
                         !.quality = <<[returned |-> TRUE, all_passed |-> r.ret]>>,
                         !.files = @ \cup {"quality_report"},
                         !.log = Append(@, Event("quality_check", "report_written")),
                         !.xcom = @ \cup {"quality_passed"}],
                     "quality_check")

\* quality_check, r the outcome of run_all_checks(df, min_rows=100) and g
\* that of generate_report(df): the report file is written, then the task
\* raises unless all checks passed
QualityChecked(r, g) ==
    IF r.raised \/ g.raised
    THEN AfterRaise([dag EXCEPT !.quality = <<[returned |-> FALSE, all_passed |-> FALSE]>>],
                    "quality_check")
    ELSE LET d == [dag EXCEPT
                      !.quality = <<[returned |-> TRUE, all_passed |-> r.ret]>>,
                      !.files = @ \cup {"quality_report"},
                      !.log = Append(@, Event("quality_check", "report_written"))]
         IN  IF ~r.ret THEN AfterRaise(d, "quality_check")
             ELSE AfterReturn([d EXCEPT !.xcom = @ \cup {"quality_passed"}],
                              "quality_check")

\* checker = DataQualityChecker(null_threshold=0.01)
NewChecker == [checks_passed |-> EmptyDict, issues |-> <<>>]

QualityCheck ==
    /\ dag.triggered
    /\ dag.state["quality_check"] = "running"
    /\ dag' = QualityChecked(run_all_checks(NewChecker, dag.raw[1], DagMinRows),
                             generate_report(NewChecker, dag.raw[1]))
    /\ UNCHANGED <<qvars, tvars, service, split>>

\* transform_data: transform raises without a close column; saving may fail
TransformData(ok) ==
    /\ dag.triggered
    /\ dag.state["transform_data"] = "running"
    /\ ok => "close" \in dag.raw[1].columns
    /\ dag' = IF ok
              THEN AfterReturn([dag EXCEPT !.files = @ \cup {"processed_data"},
                                           !.xcom = @ \cup {"processed_data_path"}],
                               "transform_data")
              ELSE AfterRaise(dag, "transform_data")
    /\ UNCHANGED <<qvars, tvars, service, split>>

\* generate_data_profile
GenerateDataProfile(ok) ==
    /\ dag.triggered
    /\ dag.state["generate_data_profile"] = "running"
    /\ dag' = IF ok
              THEN AfterReturn([dag EXCEPT !.files = @ \cup {"profile_report"},
                                           !.xcom = @ \cup {"profile_report_path"}],
                               "generate_data_profile")
              ELSE AfterRaise(dag, "generate_data_profile")
    /\ UNCHANGED <<qvars, tvars, service, split>>

\* train_model
TrainModel(ok) ==
    /\ dag.triggered
    /\ dag.state["train_model"] = "running"
    /\ dag' = IF ok
              THEN AfterReturn([dag EXCEPT !.files = @ \cup {"production_model"},
                                           !.xcom = @ \cup {"model_run_id", "model_metrics"}],
                               "train_model")
              ELSE AfterRaise(dag, "train_model")
    /\ UNCHANGED <<qvars, tvars, service, split>>

\* version_data_with_dvc: prints and returns True
VersionDataWithDvc ==
    /\ dag.triggered
    /\ dag.state["version_data_dvc"] = "running"
    /\ dag' = AfterReturn(dag, "version_data_dvc")
    /\ UNCHANGED <<qvars, tvars, service, split>>

\* the scheduler gives up on a task below a failed one
MarkUpstreamFailed(t) ==
    /\ dag.triggered
    /\ dag.state[t] = "none"
    /\ \E u \in upstream_task_ids(t) : dag.state[u] \in {"failed", "upstream_failed"}
    /\ dag' = [dag EXCEPT !.state[t] = "upstream_failed"]
    /\ UNCHANGED <<qvars, tvars, service, split>>

InitDag ==
    /\ InitWith({CleanFrame(0)}, {DefaultThreshold}, {DefaultRequiredColumns})
    /\ TransformerIdle
    /\ dag = NewRun
    /\ service = NoService
    /\ split = NoSplit

NextDag ==
    \/ \E t \in Tasks : StartTask(t)
    \/ \E f \in ExtractedFrames, ok \in BOOLEAN : ExtractData(f, ok)
    \/ QualityCheck
    \/ \E ok \in BOOLEAN : TransformData(ok)
    \/ \E ok \in BOOLEAN : GenerateDataProfile(ok)
    \/ \E ok \in BOOLEAN : TrainModel(ok)
    \/ VersionDataWithDvc
    \/ \E t \in Tasks : MarkUpstreamFailed(t)

SpecDag == InitDag /\ [][NextDag]_vars


\* the positions in the log at which task t had event e
At(t, e) == {i \in 1..Len(dag.log) : dag.log[i] = Event(t, e)}

\* every start of task t came after a return of task u
StartsAfterReturn(t, u) == \A i \in At(t, "start") : \E j \in At(u, "return") : j < i

\* extract, then quality check, then transform, each after the one before
\* it succeeded
ExtractQualityTransform ==
    /\ StartsAfterReturn("quality_check", "extract_data")
    /\ StartsAfterReturn("transform_data", "quality_check")
    /\ StartsAfterReturn("version_data_dvc", "transform_data")
    /\ StartsAfterReturn("train_model", "transform_data")

\* C24: extract, quality check and transform run in that order,
\* each after its predecessor succeeded, and once transform has succeeded
\* training can start like versioning can: it waits for neither versioning
\* nor profiling
C24_TrainingDirectlyAfterTransform ==
    dag.triggered =>
        /\ ExtractQualityTransform
        /\ (dag.state["transform_data"] = "success" /\ dag.state["version_data_dvc"] = "none")
               => Runnable("version_data_dvc")
        /\ (dag.state["transform_data"] = "success" /\ dag.state["train_model"] = "none")
               => Runnable("train_model")

\* what the wiring of the DAG does: extract, quality check and transform
\* run in that order, each after its predecessor succeeded; once transform
\* has succeeded profiling and versioning can both start, neither waiting
\* for the other; training starts only after both of them succeeded
TrainingAfterProfilingAndVersioning ==
    dag.triggered =>
        /\ ExtractQualityTransform
        /\ StartsAfterReturn("generate_data_profile", "transform_data")
        /\ (dag.state["transform_data"] = "success" /\ dag.state["version_data_dvc"] = "none")
               => Runnable("version_data_dvc")
        /\ (dag.state["transform_data"] = "success"
                /\ dag.state["generate_data_profile"] = "none")
               => Runnable("generate_data_profile")
        /\ StartsAfterReturn("train_model", "generate_data_profile")
        /\ StartsAfterReturn("train_model", "version_data_dvc")
        /\ (dag.state["train_model"] = "none"
                /\ dag.state["generate_data_profile"] = "success"
                /\ dag.state["version_data_dvc"] = "success")
               => Runnable("train_model")

\* a run in which versioning started while profiling was running, and
\* training ran after both
TrainingRan ==
    /\ dag.triggered
    /\ dag.state["train_model"] = "success"
    /\ \E i \in At("generate_data_profile", "start"),
          j \in At("version_data_dvc", "start"),
          k \in At("generate_data_profile", "return") : i < j /\ j < k


\* run_all_checks returned to the quality_check task with all_passed false
QualityFailed ==
    /\ dag.triggered
    /\ dag.quality # <<>>
    /\ dag.quality[1].returned
    /\ ~dag.quality[1].all_passed

\* C26: whenever run_all_checks returned all_passed = false to the
\* quality_check task, the report file was written and then the task raised
\* (on each try), the task never succeeds, quality_passed is never pushed,
\* and neither transform_data nor train_model is started in the run
C26_QualityFailureIsFatal ==
    QualityFailed =>
        /\ "quality_report" \in dag.files
        /\ At("quality_check", "raise") # {}
        /\ \A i \in At("quality_check", "raise") :
              i > 1 /\ dag.log[i - 1] = Event("quality_check", "report_written")
        /\ At("quality_check", "return") = {}
        /\ dag.state["quality_check"] \in {"up_for_retry", "running", "failed"}
        /\ "quality_passed" \notin dag.xcom
        /\ At("transform_data", "start") = {}
        /\ At("train_model", "start") = {}
        /\ dag.state["transform_data"] \in {"none", "upstream_failed"}
        /\ dag.state["train_model"] \in {"none", "upstream_failed"}

\* a frame of a hundred rows with a defect failed the check on both
\* tries, and the scheduler gave up on the tasks below
C26_Witness ==
    /\ QualityFailed
    /\ len(dag.raw[1]) = DagMinRows
    /\ dag.try_number["quality_check"] = Retries + 1
    /\ dag.state["quality_check"] = "failed"
    /\ dag.state["transform_data"] = "upstream_failed"
    /\ dag.state["train_model"] = "upstream_failed"


(***************************************************************************)
(* Part 4: src/api/app.py, the serving process: model_service, the         *)
(* Prometheus metrics and the endpoints /health, /predict and              *)
(* /predict/batch.  A float is a cell as in part 2; None is a cell too.    *)
(***************************************************************************)
\* requests the process answers in one behaviour
MaxRequests == 3
\* requests in one /predict/batch call
MaxBatch == 2

None == [t |-> "none", v |-> 0]

\* PredictionRequest: the required and the optional fields
RequiredFields == {"close", "open", "high", "low", "volume"}
OptionalFields == {"returns", "volatility_5", "rsi"}

\* a request body that passed validation, as the PredictionRequest object:
\* an optional field the body left out is None
PredictionRequests ==
    {[close |-> Num(150 * Scale), open |-> Num(149 * Scale), high |-> Num(151 * Scale),
      low |-> Num(148 * Scale), volume |-> Num(5 * Scale),
      returns |-> r[1], volatility_5 |-> r[2], rsi |-> x] :
        r \in {<<None, None>>, <<Num(1), Num(2)>>}, x \in {None, Num(60 * Scale)}}

\* request.dict(): every field of the model is a key, None included
dict(request) == [k \in RequiredFields \cup OptionalFields |-> request[k]]

\* data.get(key, default)
get(data, key, default) == IF key \in DOMAIN data THEN data[key] ELSE default

\* the feature list save_model_locally persisted: the feature columns of a
\* transformed frame, with and without volume
PersistedFeatureLists ==
    {prepare_features(
         transform([target_column |-> "close", feature_names |-> <<>>],
                   PriceFrame(<<100, 101, 102>>, v, 24), 1).df) : v \in BOOLEAN}

\* what is on disk when the process starts: whether each of the three files
\* loads, and the feature list in the JSON file
FileSystems ==
    [model : BOOLEAN, scaler : BOOLEAN, features : BOOLEAN,
     feature_columns : PersistedFeatureLists]

\* mutant: the statistics of the training data, mean 0 and std 1
\* for every feature
feature_stats_of_training(columns) ==
    [k \in {"mean", "std", "min", "max"} |->
        [c \in {columns[i] : i \in 1..Len(columns)} |->
            IF k = "std" THEN Num(Scale) ELSE Num(0)]]

\* _initialize_feature_stats: four empty dicts
_initialize_feature_stats(columns) ==
    [k \in {"mean", "std", "min", "max"} |-> EmptyDict]

\* mutant: a failed load leaves what was loaded before it
load_model_partial(fs) ==
    [model           |-> IF fs.model THEN "model" ELSE "None",
     scaler          |-> IF fs.model /\ fs.scaler THEN "scaler" ELSE "None",
     feature_columns |-> IF fs.model /\ fs.scaler /\ fs.features
                         THEN fs.feature_columns ELSE <<>>,
     feature_stats   |-> IF fs.model /\ fs.scaler /\ fs.features
                         THEN _initialize_feature_stats(fs.feature_columns)
                         ELSE EmptyDict]

\* __init__ and load_model: the three loads in a try; any exception sets
\* model and scaler to None and the feature list to []
load_model(fs) ==
    IF fs.model /\ fs.scaler /\ fs.features
    THEN [model           |-> "model",
          scaler          |-> "scaler",
          feature_columns |-> fs.feature_columns,
          feature_stats   |-> _initialize_feature_stats(fs.feature_columns)]
    ELSE [model           |-> "None",
          scaler          |-> "None",
          feature_columns |-> <<>>,
          feature_stats   |-> EmptyDict]

\* create_features: the one-row frame, columns in the order of
\* self.feature_columns; data['close'] is a KeyError without the key
create_features(feature_columns, data) ==
    IF "close" \notin DOMAIN data
    THEN [raised |-> TRUE, columns |-> <<>>, values |-> EmptyDict]
    ELSE LET features ==
                 [k \in {"close", "returns", "volatility_5", "rsi"} |->
                     CASE k = "close"        -> data["close"]
                       [] k = "returns"      -> get(data, "returns", Num(0))
                       [] k = "volatility_5" -> get(data, "volatility_5", Num(0))
                       [] k = "rsi"          -> get(data, "rsi", Num(50 * Scale))]
         IN  [raised  |-> FALSE,
              columns |-> feature_columns,
              values  |-> [c \in {feature_columns[i] : i \in 1..Len(feature_columns)} |->
                              IF c \in DOMAIN features THEN features[c] ELSE Num(0)]]

\* abs(value - mean) > 3 * std
out_of_range(stats, features, col) ==
    fabs(fsub(features.values[col], stats["mean"][col])).v > 3 * stats["std"][col].v

\* detect_drift: the share of columns out of range, in units of 1 / Scale;
\* arithmetic on None is a TypeError
detect_drift(stats, features) ==
    IF DOMAIN stats = {} \/ "mean" \notin DOMAIN stats \/ DOMAIN stats["mean"] = {}
    THEN [raised |-> FALSE, drift |-> 0]
    ELSE LET cols  == (DOMAIN features.values) \cap (DOMAIN stats["mean"])
             total == Len(features.columns)
         IN  IF \E c \in cols : features.values[c].t = "none"
             THEN [raised |-> TRUE, drift |-> 0]
             ELSE [raised |-> FALSE,
                   drift  |-> IF total > 0
                              THEN (Cardinality({c \in cols :
                                        out_of_range(stats, features, c)}) * Scale)
                                   \div total
                              ELSE 0]

NoResponse == [endpoint |-> "", status |-> 0, model_loaded |-> FALSE, count |-> 0]

NoPrediction ==
    [returned |-> FALSE, data |-> EmptyDict,
     features |-> [columns |-> <<>>, values |-> EmptyDict],
     confidence_score |-> 0, drift_detected |-> FALSE, drift |-> 0]

\* the process after `model_service = ModelService()` loaded m from the
\* disk fs
Started(fs, m) ==
    [started         |-> TRUE,
     disk            |-> fs,
     model           |-> m.model,
     scaler          |-> m.scaler,
     feature_columns |-> m.feature_columns,
     feature_stats   |-> m.feature_stats,
     success         |-> 0,
     error           |-> 0,
     drift_ratio     |-> 0,
     served          |-> 0,
     before          |-> [success |-> 0, error |-> 0],
     prediction      |-> NoPrediction,
     response        |-> NoResponse]

Max(a, b) == IF a > b THEN a ELSE b

\* ModelService.predict(data) on the service s: s afterwards, with the
\* result handed back in s.prediction.  accepts: whether scaler and model
\* take a row that holds a null (it depends on the estimator)
model_service_predict(s, data, accepts) ==
    LET features == create_features(s.feature_columns, data)
        d        == IF features.raised THEN [raised |-> TRUE, drift |-> 0]
                    ELSE detect_drift(s.feature_stats, features)
        nulls    == \E c \in DOMAIN features.values : features.values[c].t # "num"
        kept     == [columns |-> features.columns, values |-> features.values]
    IN  IF features.raised \/ d.raised
        THEN [s EXCEPT !.error = @ + 1,
                       !.prediction = [NoPrediction EXCEPT !.data = data, !.features = kept]]
        ELSE IF s.scaler = "None" \/ s.model = "None" \/ (nulls /\ ~accepts)
        THEN [s EXCEPT !.drift_ratio = d.drift,
                       !.error = @ + 1,
                       !.prediction = [NoPrediction EXCEPT !.data = data,
                                                           !.features = kept,
                                                           !.drift = d.drift]]
        ELSE [s EXCEPT !.drift_ratio = d.drift,
                       !.success = @ + 1,
                       !.prediction =
                           [returned         |-> TRUE,
                            data             |-> data,
                            features         |-> kept,
                            confidence_score |-> Max(Scale \div 2, Scale - d.drift),
                            drift_detected   |-> d.drift * 10 > Scale,
                            drift            |-> d.drift]]

\* the counters as they were when a request came in
Arrived(s) ==
    [s EXCEPT !.served = @ + 1, !.before = [success |-> s.success, error |-> s.error]]

\* GET /health
Health ==
    /\ service.started
    /\ service.served < MaxRequests
    /\ service' = [Arrived(service) EXCEPT
                      !.response = [endpoint |-> "/health", status |-> 200,
                                    model_loaded |-> service.model # "None",
                                    count |-> 0]]
    /\ UNCHANGED <<qvars, tvars, dag, split>>

\* the answer of /predict to the service state s that predict left
Answered(s) ==
    [s EXCEPT !.response = [endpoint |-> "/predict",
                            status |-> IF s.prediction.returned THEN 200 ELSE 500,
                            model_loaded |-> s.model # "None",
                            count |-> 0]]

\* POST /predict
Predict(request, accepts) ==
    /\ service.started
    /\ service.served < MaxRequests
    /\ service' = Answered(model_service_predict(Arrived(service), dict(request), accepts))
    /\ UNCHANGED <<qvars, tvars, dag, split>>

RECURSIVE predict_loop(_, _, _, _)
\* for req in requests, from the k-th on: the first exception ends the loop
predict_loop(s, requests, accepts, k) ==
    IF k > Len(requests)
    THEN [s EXCEPT !.response = [endpoint |-> "/predict/batch", status |-> 200,
                                 model_loaded |-> s.model # "None",
                                 count |-> Len(requests)]]
    ELSE LET s1 == model_service_predict(s, dict(requests[k]), accepts)
         IN  IF s1.prediction.returned
             THEN predict_loop(s1, requests, accepts, k + 1)
             ELSE [s1 EXCEPT !.response = [endpoint |-> "/predict/batch", status |-> 500,
                                           model_loaded |-> s.model # "None",
                                           count |-> 0]]

\* POST /predict/batch
PredictBatch(requests, accepts) ==
    /\ service.started
    /\ service.served < MaxRequests
    /\ service' = predict_loop(Arrived(service), requests, accepts, 1)
    /\ UNCHANGED <<qvars, tvars, dag, split>>

\* the lists of requests of a batch
Batches == UNION {[1..n -> PredictionRequests] : n \in 0..MaxBatch}

InitService ==
    /\ InitWith({CleanFrame(0)}, {DefaultThreshold}, {DefaultRequiredColumns})
    /\ TransformerIdle
    /\ dag = NoRun
    /\ split = NoSplit
    /\ \E fs \in FileSystems : service = Started(fs, load_model(fs))

NextService ==
    \/ Health
    \/ \E request \in PredictionRequests, accepts \in BOOLEAN : Predict(request, accepts)
    \/ \E requests \in Batches, accepts \in BOOLEAN : PredictBatch(requests, accepts)

SpecService == InitService /\ [][NextService]_vars


\* the service answered a /predict request
Predicted == service.started /\ service.response.endpoint = "/predict"

\* the value create_features is to put in for a feature that was not supplied
Placeholder(c) == IF c = "rsi" THEN Num(50 * Scale) ELSE Num(0)

\* C25: the feature vector built for a /predict request has exactly the
\* persisted feature list as its columns, in that order, and every feature
\* holds a number: the value the request supplied, or the placeholder (0.0,
\* 50.0 for rsi) when the request left it out, never a null
C25_FeatureVectorHasNoNull ==
    Predicted =>
        LET p == service.prediction IN
        /\ p.features.columns = service.feature_columns
        /\ \A c \in DOMAIN p.features.values :
              /\ p.features.values[c].t = "num"
              /\ p.features.values[c] =
                    IF c \in OptionalFields /\ p.data[c] # None THEN p.data[c]
                    ELSE Placeholder(c)


(***************************************************************************)
(* transform for every horizon up to the longest window and beyond, on     *)
(* frames around the lengths at which rows start to come out.              *)
(***************************************************************************)
\* the largest horizon asked for here
MaxLongHorizon == 12

\* the lengths of the frames: none, shorter than the warm-up, just over it,
\* and just over warm-up plus horizon
WarmupLengths == {0, 5, 11, 12, 13, 22, 23, 24}

\* rising and falling series, and a series of low prices with one of zero
WarmupSeries ==
    UNION {{[i \in 1..n |-> 100 + (i - 1)], [i \in 1..n |-> 120 - i]} :
              n \in WarmupLengths}
    \cup {[[i \in 1..n |-> 2 * i] EXCEPT ![z] = 0] :
              n \in {x \in WarmupLengths : x >= 13}, z \in {3, 13}}

WarmupFrames == {PriceFrame(c, TRUE, 24) : c \in WarmupSeries}

InitWarmup == InitTransformer(WarmupFrames)

NextWarmup == TFresh /\ \E h \in 1..MaxLongHorizon : Transform(h)

SpecWarmup == InitWarmup /\ [][NextWarmup]_vars

\* no cell of the frame is missing
NothingMissing(f) == \A c \in Columns(f), i \in 1..len(f) : f.data[c][i].t = "num"

\* the price differs from one row to the next
PriceChangesEveryStep(f) ==
    \A i \in 2..len(f) : f.data["close"][i] # f.data["close"][i - 1]

PositiveVolume(f) ==
    "volume" \in Columns(f) /\ \A i \in 1..len(f) : f.data["volume"][i].v > 0

PositivePrice(f) == \A i \in 1..len(f) : f.data["close"][i].v > 0

\* the rows 10 .. n-h-1 (counted from 0) of the input, in order, are the
\* rows of the output
RowsAfterWarmupBeforeHorizon ==
    LET n == len(tlast.input)
        h == tlast.horizon
        m == IF n > h + 10 THEN n - h - 10 ELSE 0
    IN  /\ len(tlast.df) = m
        /\ \A k \in 1..m :
              /\ tlast.df.index[k] = tlast.input.index[10 + k]
              /\ \A c \in Columns(tlast.input) :
                    tlast.df.data[c][k] = tlast.input.data[c][10 + k]

\* C27 as stated: for an input without missing values, with a price that
\* changes at every step and positive volume, transform with horizon h in
\* 1..11 returns exactly the input rows 10 .. n-h-1
C27_RowsLostToWarmupAndHorizon ==
    (/\ Transformed
     /\ tlast.horizon \in 1..11
     /\ NothingMissing(tlast.input)
     /\ PriceChangesEveryStep(tlast.input)
     /\ PositiveVolume(tlast.input))
    => RowsAfterWarmupBeforeHorizon

\* C27 amended: the same for a price that is positive as well
C27_RowsLostOfPositivePrices ==
    (/\ Transformed
     /\ tlast.horizon \in 1..11
     /\ NothingMissing(tlast.input)
     /\ PriceChangesEveryStep(tlast.input)
     /\ PositivePrice(tlast.input)
     /\ PositiveVolume(tlast.input))
    => RowsAfterWarmupBeforeHorizon

\* a transform with horizon 11 of 24 rows of positive moving prices
\* returned three rows
C27_Witness ==
    /\ Transformed
    /\ tlast.horizon = 11
    /\ len(tlast.input) = 24
    /\ PriceChangesEveryStep(tlast.input)
    /\ PositivePrice(tlast.input)
    /\ PositiveVolume(tlast.input)
    /\ len(tlast.df) = 3


(***************************************************************************)
(* Part 5: src/models/train.py, VolatilityPredictor.split_data.  X and y   *)
(* are the feature rows and the targets of one processed frame, in the     *)
(* order of its timestamps; test_size is the fraction num / den.           *)
(***************************************************************************)
\* rows of the frames that are split
MaxSamples == 30

\* test_size: the default 0.2, and fractions a float holds exactly
TestSizes ==
    {[num |-> 1, den |-> 5], [num |-> 1, den |-> 4], [num |-> 1, den |-> 2],
     [num |-> 0, den |-> 1], [num |-> 1, den |-> 1]}

\* X, y = prepare_features(df) for a processed frame of n rows
FeatureRows(n) == [i \in 1..n |-> [ts |-> i, row |-> "features"]]
TargetRows(n) == [i \in 1..n |-> [ts |-> i, row |-> "target"]]

\* mutant: rounded up
split_idx_ceil(n, test_size) ==
    (n * (test_size.den - test_size.num) + test_size.den - 1) \div test_size.den

\* int(len(X) * (1 - test_size))
split_idx(n, test_size) == (n * (test_size.den - test_size.num)) \div test_size.den

\* s.iloc[:k] and s.iloc[k:]
iloc_to(s, k) == SubSeq(s, 1, k)
iloc_from(s, k) == SubSeq(s, k + 1, Len(s))

split_data(X, y, test_size) ==
    LET k == split_idx(Len(X), test_size)
    IN  [made |-> TRUE, X |-> X, y |-> y, test_size |-> test_size,
         X_train |-> iloc_to(X, k), X_test |-> iloc_from(X, k),
         y_train |-> iloc_to(y, k), y_test |-> iloc_from(y, k)]

\* X_train, X_test, y_train, y_test = self.split_data(X, y, test_size)
SplitData(n, test_size) ==
    /\ split' = split_data(FeatureRows(n), TargetRows(n), test_size)
    /\ UNCHANGED <<qvars, tvars, dag, service>>

InitSplit ==
    /\ InitWith({CleanFrame(0)}, {DefaultThreshold}, {DefaultRequiredColumns})
    /\ TransformerIdle
    /\ dag = NoRun
    /\ service = NoService
    /\ split = NoSplit

NextSplit == \E n \in 0..MaxSamples, test_size \in TestSizes : SplitData(n, test_size)

SpecSplit == InitSplit /\ [][NextSplit]_vars

\* the timestamps of the rows of a sequence
Stamps(s) == {s[i].ts : i \in 1..Len(s)}

C29_DriftAlwaysZero ==
    service.started =>
        /\ \A k \in DOMAIN service.feature_stats : DOMAIN service.feature_stats[k] = {}
        /\ service.drift_ratio = 0
        /\ service.prediction.drift = 0
        /\ service.prediction.returned =>
              /\ service.prediction.confidence_score = Scale
              /\ ~service.prediction.drift_detected

\* a service with a loaded model answered a request that supplied rsi = 60
\* with a prediction
C29_Witness ==
    /\ service.started
    /\ service.model = "model"
    /\ DOMAIN service.feature_stats # {}
    /\ service.success > 0
    /\ service.prediction.returned
    /\ "rsi" \in DOMAIN service.prediction.features.values
    /\ service.prediction.features.values["rsi"] = Num(60 * Scale)


\* one of the three loads failed when the process started
LoadFailed ==
    /\ service.started
    /\ ~(service.disk.model /\ service.disk.scaler /\ service.disk.features)

\* C30: when a load failed at startup the service runs with model = None,
\* scaler = None and an empty feature list; /health then reports
\* model_loaded = false, and every /predict request is answered with 500,
\* having raised the error counter by one and left the success counter alone
C30_FailedLoadServesErrors ==
    LoadFailed =>
        /\ service.model = "None"
        /\ service.scaler = "None"
        /\ service.feature_columns = <<>>
        /\ service.success = 0
        /\ service.response.endpoint = "/health" =>
              /\ service.response.status = 200
              /\ ~service.response.model_loaded
        /\ service.response.endpoint = "/predict" =>
              /\ service.response.status = 500
              /\ ~service.prediction.returned
              /\ service.error = service.before.error + 1
              /\ service.success = service.before.success

\* the scaler file was missing at startup, and the second /predict request
\* after it was answered
C30_Witness ==
    /\ LoadFailed
    /\ service.disk.model
    /\ ~service.disk.scaler
    /\ service.response.endpoint = "/predict"
    /\ service.response.status = 500
    /\ service.error = 2

====
